---- MODULE Spec2Model ----
(***************************************************************************)
(* Verification model of supercompact: the budget-constrained turn         *)
(* selector (lib/selector.py), the entity-coverage metric                  *)
(* (lib/eval/entity_coverage.py) and the two JSONL turn parsers            *)
(* (lib/parser.py, plugins/codex-cli/codex_parser.py).                     *)
(*                                                                         *)
(* Scores are fixed-point numbers in units of 1/RecencyDen (hundredths),   *)
(* so that the selector's 0.15 recency bonus is the exact rational         *)
(* RecencyNum/RecencyDen.                                                  *)
(***************************************************************************)
EXTENDS Integers, Sequences, FiniteSets, TLC

VARIABLES
    \* ---- selector (select_turns) ----
    turns,            \* input turn list: sequence of [kind, index]
    token_counts,     \* map turn.index -> token count
    scored,           \* ScoredTurn list handed to select_turns
    budget,           \* token budget
    short_threshold,  \* system turns at or below this are always kept
    pc,               \* "input" | "selected" | "reselected" | "evaluated" | "idle"
    result,           \* SelectionResult of the run
    rerun,            \* SelectionResult of select_turns run on its own output
    \* ---- entity-coverage evaluation ----
    turn_text,        \* map turn.index -> extract_text(turn)
    suffix_entities,  \* entities extracted from the suffix system turns
    budget2,          \* the larger budget of a two-budget comparison
    result2,          \* SelectionResult under budget2
    cov1,             \* weighted_coverage under budget, as [num, den]
    cov2,             \* weighted_coverage under budget2, as [num, den]
    \* ---- parsers (parse_jsonl, parse_codex_jsonl) ----
    parser,           \* "claude" | "codex" | "none"
    p_turns,          \* turns: sequence of [kind, lines, index]
    current_system,   \* sequence of 0 or 1 turn (None or the accumulator)
    turn_index,       \* next provisional index
    nread,            \* number of lines read so far
    p_done,           \* TRUE once the trailing flush and the re-index ran
    stream,           \* the lines of the file read so far, in file order
    p_error,          \* "none", or the exception that ended the parse
    \* ---- evaluate: split, method dispatch ----
    split_ratio,      \* split_ratio, as the numerator of split_ratio / RatioDen
    split_idx,        \* split_idx once the scan for a user turn has ended
    prefix_turns,     \* turns[:split_idx]
    suffix_turns,     \* turns[split_idx:]
    method,           \* the requested method name
    eval_error,       \* "none", or the error that ended the evaluation
    scorer_calls,     \* number of scorer invocations so far
    selector_calls,   \* number of select_turns invocations so far
    \* ---- cmd_evaluate: the loop over the methods ----
    methods,          \* _resolve_methods(args.method)
    method_pos,       \* number of methods the loop has gone through
    probe_set,        \* TRUE iff cached probes were loaded (probe_set is not None)
    probe_cache,      \* the probe cache file: "absent" | "valid" |
                      \* "unparseable" (not JSON) | "misshapen" (JSON without "probes")
    evidence_results, \* methods of the rows of evidence_results, in order
    entity_results,   \* methods of the rows of entity_results, in order
    console,          \* per method gone through: [method, event] printed
    exported,         \* entries written by _export_eval_json
    \* ---- remote scorers (LlamaEmbedScorer, LlamaRerankScorer): score_turns ----
    remote,           \* "llama-embed" | "llama-rerank" | "none"
    system_turns,     \* the turns to score
    batch_size,       \* batch_size
    batch_i,          \* i of "for i in range(0, len(...), batch_size)"
    server_value,     \* what the server holds for document k (0-based):
                      \* its relevance score, or its embedding
    query_emb,        \* normalised embedding of the query (0 before it is known)
    doc_embs,         \* normalised document embeddings gathered so far
    index_score,      \* dict global index -> relevance score
    response,         \* items of the last response, in the order received
    attempts,         \* attempts made for the last request
    remote_error,     \* "none", or the exception that left score_turns
    remote_results,   \* the ScoredTurn list returned
    \* ---- dedup (SuffixAutomaton, _build_automaton, _turn_unique_ratio) ----
    dedup_texts,      \* extract_text of each turn, as sequences of characters
    sa_states,        \* SuffixAutomaton.states (state i is sa_states[i + 1])
    sa_last,          \* SuffixAutomaton.last
    sa_pos,           \* pos of _build_automaton: characters extended so far
    min_repeat_len,   \* min_repeat_len
    scored_text,      \* the text handed to _turn_unique_ratio
    match_lens,       \* match_repeated_length(text)
    duplicated,       \* duplicated of _turn_unique_ratio
    unique_ratio,     \* its return value, as [num, den]
    \* ---- compact (cmd_compact, compact_codex._run_compaction) ----
    cli,              \* "compact" | "compact_codex" | "none": the command run
    dry_run,          \* args.dry_run
    output,           \* whether an output path was given
    stats,            \* the results handed to print_stats
    written,          \* the results written to the output path
    \* ---- setcover scores and the selector's order (setcover_scores step 5) ----
    n_turns,          \* N = total_turns = len(turns)
    sc_system_turns,  \* indices of system_turns, in list order
    selected_order,   \* selected_order of the greedy set-cover
    sc_results,       \* results: [index, score] per system turn, score in
                      \* units of 1 / ScoreUnit
    walk,             \* indices in the order the selector's sort leaves them
    \* ---- setcover greedy loop (setcover_scores steps 1 to 4) ----
    turn_entity_sets, \* turn.index -> set of entities of the turn
    entity_weight,    \* entity -> weight, in tenths
    candidates,       \* indices of the candidates left, in dict order
    covered,          \* covered
    \* ---- LLM judge (lib/eval/judge.py) ----
    api_key,          \* OPENROUTER_API_KEY is set
    call,             \* the running _openrouter_generate_async call
    judge_probes,     \* ids of probe_set.probes
    tasks,            \* gathered tasks: position and call of each
    sem,              \* value of the asyncio.Semaphore
    answers,          \* list of ProbeAnswer
    \* ---- cli.js patcher (plugins/claude-code/scripts/patcher.py) ----
    cli_js,           \* the file at cli_path: exists, content
    p_args,           \* sys.argv of the last run
    p_out,            \* what the last run printed last
    p_exit,           \* exit status of the last run
    p_runs            \* runs of the patcher so far

selVars   == <<turns, token_counts, scored, budget, short_threshold, result, rerun>>
covVars   == <<turn_text, suffix_entities, budget2, result2, cov1, cov2>>
parseVars == <<parser, p_turns, current_system, turn_index, nread, p_done,
               stream, p_error>>
evalVars  == <<split_ratio, split_idx, prefix_turns, suffix_turns, method,
               eval_error, scorer_calls, selector_calls>>
batchVars == <<methods, method_pos, probe_set, probe_cache, evidence_results,
               entity_results, console, exported>>
remoteVars == <<remote, system_turns, batch_size, batch_i, server_value, query_emb,
                doc_embs, index_score, response, attempts, remote_error,
                remote_results>>
dedupVars == <<dedup_texts, sa_states, sa_last, sa_pos, min_repeat_len, scored_text,
               match_lens, duplicated, unique_ratio>>
compactVars == <<cli, dry_run, output, stats, written>>
rankVars == <<n_turns, sc_system_turns, selected_order, sc_results, walk>>
\* The variables of the parts added after the compact commands.
greedyVars == <<turn_entity_sets, entity_weight, candidates, covered>>
judgeVars == <<api_key, call, judge_probes, tasks, sem, answers>>
patchVars == <<cli_js, p_args, p_out, p_exit, p_runs>>
restVars  == <<rankVars, greedyVars, judgeVars, patchVars>>
vars      == <<selVars, covVars, parseVars, evalVars, batchVars, remoteVars,
               dedupVars, compactVars, restVars, pc>>

---------------------------------------------------------------------------
\* Bounds of the model.
MaxTurns     == 3    \* longest input turn list
MaxTok       == 2    \* largest token count of one turn
MaxBudget    == 4    \* largest budget (the smallest is -1)
MaxThreshold == 1    \* largest short_threshold
MaxScore     == 1    \* scores are 0, ScoreStep, ..., MaxScore * ScoreStep
ScoreStep    == 5    \* distance between two scores, in 1/RecencyDen
MaxRecords   == 4    \* longest record stream read by a parser
MaxConv      == 4    \* longest conversation handed to evaluate
RatioDen     == 10   \* split ratios are 1/RatioDen, ..., (RatioDen - 1)/RatioDen
MaxBatch     == 3    \* largest batch_size of a remote scorer
MaxChars     == 4    \* most characters in the texts of a deduplicated conversation
MaxRepeatLen == 3    \* largest min_repeat_len
MaxDedupTurns == 2   \* most turns of a deduplicated conversation
MaxTotal     == 42   \* most turns of a conversation scored by setcover
MaxCoverTurns == 3   \* most turns of a conversation in the greedy set-cover
MaxWeight    == 2    \* largest entity weight, in tenths
MaxJudgeProbes == 3  \* most probes of a probe set given to the judge
MaxRetrying  == 1    \* most gathered tasks that are retrying at the same time
MaxSegments  == 3    \* most segments of cli.js
MaxRuns      == 2    \* most runs of the patcher

\* The recency bonus 0.15 of select_turns, as RecencyNum / RecencyDen.
RecencyNum == 15
RecencyDen == 100

Kinds   == {"user", "system"}
Scores  == {k * ScoreStep : k \in 0..MaxScore}
Budgets == (0 - 1)..MaxBudget

Max(S) == CHOOSE x \in S : \A y \in S : y <= x

RECURSIVE SeqSum(_)
SeqSum(s) == IF s = <<>> THEN 0 ELSE Head(s) + SeqSum(Tail(s))

---------------------------------------------------------------------------
\* lib/selector.py

\* token_counts.get(index, 0)
Get(tc, index) == IF index \in DOMAIN tc THEN tc[index] ELSE 0

\* MUTANT: looks the count up by list position instead of by turn.index.
TurnTokenCountByPosition(tc, turn, pos) == Get(tc, pos - 1)

\* tc = token_counts.get(turn.index, 0) for the turn at list position pos.
TurnTokenCount(tc, turn, pos) == Get(tc, turn.index)

\* The positions classified as user turns / as short system turns.
UserPositions(ts) == {p \in 1..Len(ts) : ts[p].kind = "user"}

ShortPositions(ts, tc, thr) ==
    {p \in 1..Len(ts) : ts[p].kind # "user" /\ TurnTokenCount(tc, ts[p], p) <= thr}

\* Sum of the token counts of the turns at the positions in P.
PositionTokens(ts, tc, P) ==
    SeqSum([p \in 1..Len(ts) |-> IF p \in P THEN TurnTokenCount(tc, ts[p], p) ELSE 0])

\* MUTANT: takes the last turn of the list, and only if it is a system turn.
LastSystemPosTail(ts) ==
    IF Len(ts) > 0 /\ ts[Len(ts)].kind = "system" THEN Len(ts) ELSE 0

\* The most recent system turn: its position, 0 for None.
LastSystemPos(ts) ==
    LET S == {p \in 1..Len(ts) : ts[p].kind = "system"}
    IN  IF S = {} THEN 0 ELSE Max(S)

\* MUTANT: the force-kept last system turn is not tracked in kept_scored.
LastSystemScoredForgotten(sc, index) == <<>>

\* scored_map[index] when index is in scored_map, as a list of 0 or 1 element.
LastSystemScored(sc, index) ==
    LET S == {k \in 1..Len(sc) : sc[k].turn.index = index}
    IN  IF S = {} THEN <<>> ELSE <<sc[Max(S)]>>

\* adj_score = st.score + 0.15 * recency, scaled by RecencyDen * max(N, 1).
AdjScore(st, total_turns) ==
    IF total_turns > 0
    THEN st.score * total_turns + RecencyNum * st.turn.index
    ELSE st.score

\* The (adj_score, st) pairs of the scored turns that are not kept yet.
Adjusted(sc, kept, total_turns) ==
    LET todo == SelectSeq(sc, LAMBDA st : st.turn.index \notin kept)
    IN  [k \in 1..Len(todo) |-> [adj |-> AdjScore(todo[k], total_turns), st |-> todo[k]]]

\* list.sort(key=adj, reverse=True): descending and stable.
RECURSIVE InsertDesc(_, _)
InsertDesc(s, x) ==
    IF s = <<>> THEN <<x>>
    ELSE IF Head(s).adj >= x.adj THEN <<Head(s)>> \o InsertDesc(Tail(s), x)
    ELSE <<x>> \o s

RECURSIVE SortDesc(_)
SortDesc(s) ==
    IF s = <<>> THEN <<>>
    ELSE InsertDesc(SortDesc(SubSeq(s, 1, Len(s) - 1)), s[Len(s)])

\* MUTANT: the budget is not reduced by the always-kept tier.
InitialRemainingWholeBudget(b, used_tokens) == b

\* remaining = budget - used_tokens
InitialRemaining(b, used_tokens) == b - used_tokens

\* MUTANT: a turn must be strictly smaller than what remains.
FitsStrictly(tokens, remaining) == tokens < remaining

\* if st.tokens <= remaining
Fits(tokens, remaining) == tokens <= remaining

\* MUTANT: a kept turn is not charged against the remaining budget.
ChargeNothing(remaining, tokens) == remaining

\* remaining -= st.tokens
Charge(remaining, tokens) == remaining - tokens

\* MUTANT: the walk ends at the first turn that does not fit, which is
\* dropped with every turn after it.
RECURSIVE GreedyFillUntilFull(_, _)
GreedyFillUntilFull(adjusted, acc) ==
    IF adjusted = <<>> THEN acc
    ELSE LET st == Head(adjusted).st
         IN  IF st.tokens <= acc.remaining
             THEN GreedyFillUntilFull(Tail(adjusted),
                      [acc EXCEPT !.kept_indices = @ \cup {st.turn.index},
                                  !.kept_scored = Append(@, st),
                                  !.scored_kept_tokens = @ + st.tokens,
                                  !.remaining = @ - st.tokens])
             ELSE [acc EXCEPT !.dropped_turns =
                                  @ \o [k \in 1..Len(adjusted) |-> adjusted[k].st],
                              !.scored_dropped_tokens =
                                  @ + SeqSum([k \in 1..Len(adjusted) |->
                                                 adjusted[k].st.tokens])]

\* The greedy loop over the sorted (adj_score, st) pairs.
RECURSIVE GreedyFill(_, _)
GreedyFill(adjusted, acc) ==
    IF adjusted = <<>> THEN acc
    ELSE LET st == Head(adjusted).st
         IN  GreedyFill(Tail(adjusted),
                 IF Fits(st.tokens, acc.remaining)
                 THEN [acc EXCEPT !.kept_indices = @ \cup {st.turn.index},
                                  !.kept_scored = Append(@, st),
                                  !.scored_kept_tokens = @ + st.tokens,
                                  !.remaining = Charge(@, st.tokens)]
                 ELSE [acc EXCEPT !.dropped_turns = Append(@, st),
                                  !.scored_dropped_tokens = @ + st.tokens])

\* sorted(list, key=index): ascending and stable.
RECURSIVE InsertByIndex(_, _)
InsertByIndex(s, x) ==
    IF s = <<>> THEN <<x>>
    ELSE IF Head(s).index <= x.index THEN <<Head(s)>> \o InsertByIndex(Tail(s), x)
    ELSE <<x>> \o s

RECURSIVE SortByIndex(_)
SortByIndex(s) ==
    IF s = <<>> THEN <<>>
    ELSE InsertByIndex(SortByIndex(SubSeq(s, 1, Len(s) - 1)), s[Len(s)])

Reverse(s) == [k \in 1..Len(s) |-> s[Len(s) + 1 - k]]

\* MUTANT: the final sort is descending, like the sort of the adjusted scores.
BuildKeptTurnsReversed(ts, kept) ==
    Reverse(SortByIndex(SelectSeq(ts, LAMBDA t : t.index \in kept)))

\* result.kept_turns = sorted([t for t in turns if t.index in kept_indices], key=index)
BuildKeptTurns(ts, kept) ==
    SortByIndex(SelectSeq(ts, LAMBDA t : t.index \in kept))

\* select_turns(turns, scored, token_counts, budget, short_threshold)
select_turns(ts, sc, tc, b, thr) ==
    LET total_turns  == Len(ts)
        users        == UserPositions(ts)
        shorts       == ShortPositions(ts, tc, thr)
        user_tokens  == PositionTokens(ts, tc, users)
        short_tokens == PositionTokens(ts, tc, shorts)
        kept0        == {ts[p].index : p \in users \cup shorts}
        last         == LastSystemPos(ts)
        addLast      == last # 0 /\ ts[last].index \notin kept0
        kept1        == IF addLast THEN kept0 \cup {ts[last].index} ELSE kept0
        used_tokens  == user_tokens + short_tokens
                        + (IF addLast THEN Get(tc, ts[last].index) ELSE 0)
        kept_scored0 == IF addLast THEN LastSystemScored(sc, ts[last].index) ELSE <<>>
        adjusted     == SortDesc(Adjusted(sc, kept1, total_turns))
        acc          == GreedyFill(adjusted,
                            [kept_indices          |-> kept1,
                             kept_scored           |-> kept_scored0,
                             dropped_turns         |-> <<>>,
                             scored_kept_tokens    |-> 0,
                             scored_dropped_tokens |-> 0,
                             remaining             |-> InitialRemaining(b, used_tokens)])
    IN  [kept_turns            |-> BuildKeptTurns(ts, acc.kept_indices),
         dropped_turns         |-> acc.dropped_turns,
         kept_scored           |-> acc.kept_scored,
         user_tokens           |-> user_tokens,
         short_system_tokens   |-> short_tokens,
         scored_kept_tokens    |-> acc.scored_kept_tokens,
         scored_dropped_tokens |-> acc.scored_dropped_tokens,
         total_input_tokens    |-> PositionTokens(ts, tc, 1..Len(ts)),
         budget                |-> b,
         visited               |-> [k \in 1..Len(adjusted) |-> adjusted[k].st]]

\* SelectionResult(budget=budget) before anything was selected.
EmptyResult(b) ==
    [kept_turns |-> <<>>, dropped_turns |-> <<>>, kept_scored |-> <<>>,
     user_tokens |-> 0, short_system_tokens |-> 0, scored_kept_tokens |-> 0,
     scored_dropped_tokens |-> 0, total_input_tokens |-> 0, budget |-> b,
     visited |-> <<>>]

---------------------------------------------------------------------------
\* The callers of select_turns: compact.py cmd_compact, entity_coverage.evaluate.

\* long_system = [t for t in system_turns if token_counts.get(t.index, 0) > short_threshold]
LongSystem(ts, tc, thr) ==
    SelectSeq(ts, LAMBDA t : t.kind = "system" /\ Get(tc, t.index) > thr)

\* A scorer's output: one ScoredTurn per long system turn, in input order,
\* with tokens = token_counts.get(turn.index, 0); score[i] is the score it gave.
ScorerOutput(long_system, tc, score) ==
    [k \in 1..Len(long_system) |->
        [turn   |-> long_system[k],
         score  |-> score[long_system[k].index],
         tokens |-> Get(tc, long_system[k].index)]]

\* A parsed conversation of n turns: dense indices 0..n-1 in list order.
MakeTurns(n, kind) == [p \in 1..n |-> [kind |-> kind[p], index |-> p - 1]]

---------------------------------------------------------------------------
\* Initial states: the arguments of one select_turns call, as cmd_compact and
\* evaluate build them (token counts for every turn, one ScoredTurn per long
\* system turn).

NoCoverage == [num |-> 0, den |-> 1]

CovIdle ==
    /\ turn_text = <<>>
    /\ suffix_entities = {}
    /\ budget2 = 0
    /\ result2 = EmptyResult(0)
    /\ cov1 = NoCoverage
    /\ cov2 = NoCoverage

ParseIdle ==
    /\ parser = "none"
    /\ p_turns = <<>>
    /\ current_system = <<>>
    /\ turn_index = 0
    /\ nread = 0
    /\ p_done = FALSE
    /\ stream = <<>>
    /\ p_error = "none"

EvalIdle ==
    /\ split_ratio = 0
    /\ split_idx = 0
    /\ prefix_turns = <<>>
    /\ suffix_turns = <<>>
    /\ method = "none"
    /\ eval_error = "none"
    /\ scorer_calls = 0
    /\ selector_calls = 0

BatchIdle ==
    /\ methods = <<>>
    /\ method_pos = 0
    /\ probe_set = FALSE
    /\ probe_cache = "absent"
    /\ evidence_results = <<>>
    /\ entity_results = <<>>
    /\ console = <<>>
    /\ exported = <<>>

RemoteIdle ==
    /\ remote = "none"
    /\ system_turns = <<>>
    /\ batch_size = 0
    /\ batch_i = 0
    /\ server_value = <<>>
    /\ query_emb = 0
    /\ doc_embs = <<>>
    /\ index_score = <<>>
    /\ response = <<>>
    /\ attempts = 0
    /\ remote_error = "none"
    /\ remote_results = <<>>

DedupIdle ==
    /\ dedup_texts = <<>>
    /\ sa_states = <<>>
    /\ sa_last = 0
    /\ sa_pos = 0
    /\ min_repeat_len = 0
    /\ scored_text = <<>>
    /\ match_lens = <<>>
    /\ duplicated = 0
    /\ unique_ratio = [num |-> 0, den |-> 1]

CompactIdle ==
    /\ cli = "none"
    /\ dry_run = FALSE
    /\ output = FALSE
    /\ stats = <<>>
    /\ written = <<>>

RankIdle ==
    /\ n_turns = 0
    /\ sc_system_turns = <<>>
    /\ selected_order = <<>>
    /\ sc_results = <<>>
    /\ walk = <<>>

GreedyIdle ==
    /\ turn_entity_sets = <<>>
    /\ entity_weight = <<>>
    /\ candidates = <<>>
    /\ covered = {}

JudgeIdle ==
    /\ api_key = FALSE
    /\ call = <<>>
    /\ judge_probes = {}
    /\ tasks = <<>>
    /\ sem = 0
    /\ answers = <<>>

PatchIdle ==
    /\ cli_js = [exists |-> FALSE, content |-> <<>>]
    /\ p_args = [enough |-> FALSE, dry_run |-> FALSE]
    /\ p_out = ""
    /\ p_exit = 0
    /\ p_runs = 0

RestIdle ==
    /\ RankIdle
    /\ GreedyIdle
    /\ JudgeIdle
    /\ PatchIdle

\* score[i] is drawn only for long system turns (the others are never scored).
SelectorInputs ==
    \E n \in 0..MaxTurns :
      \E kind \in [1..n -> Kinds], tc \in [0..(n - 1) -> 0..MaxTok],
         thr \in 0..MaxThreshold, score \in [0..(n - 1) -> Scores] :
        LET ts   == MakeTurns(n, kind)
            long == LongSystem(ts, tc, thr)
        IN  /\ \A i \in 0..(n - 1) :
                   score[i] # 0 => \E k \in 1..Len(long) : long[k].index = i
            /\ turns = ts
            /\ token_counts = tc
            /\ short_threshold = thr
            /\ scored = ScorerOutput(long, tc, score)

Init ==
    /\ SelectorInputs
    /\ budget \in Budgets
    /\ pc = "input"
    /\ result = EmptyResult(budget)
    /\ rerun = EmptyResult(budget)
    /\ CovIdle
    /\ ParseIdle
    /\ EvalIdle
    /\ BatchIdle
    /\ RemoteIdle
    /\ DedupIdle
    /\ CompactIdle
    /\ RestIdle

\* result = select_turns(turns, scored, token_counts, budget, short_threshold)
Select ==
    /\ pc = "input"
    /\ result' = select_turns(turns, scored, token_counts, budget, short_threshold)
    /\ pc' = "selected"
    /\ UNCHANGED <<turns, token_counts, scored, budget, short_threshold, rerun>>
    /\ UNCHANGED <<covVars, parseVars, evalVars, batchVars, remoteVars, dedupVars, compactVars,
                   restVars>>

\* The selector run again on its own output: the kept turns, the scored turns
\* among them, the same token counts, budget and short_threshold.
Reselect ==
    /\ pc = "selected"
    /\ LET kept == {result.kept_turns[k].index : k \in 1..Len(result.kept_turns)}
       IN  rerun' = select_turns(result.kept_turns,
                                 SelectSeq(scored, LAMBDA st : st.turn.index \in kept),
                                 token_counts, budget, short_threshold)
    /\ pc' = "reselected"
    /\ UNCHANGED <<turns, token_counts, scored, budget, short_threshold, result>>
    /\ UNCHANGED <<covVars, parseVars, evalVars, batchVars, remoteVars, dedupVars, compactVars,
                   restVars>>

Next == Select \/ Reselect

Spec == Init /\ [][Next]_vars

---------------------------------------------------------------------------
\* Vocabulary of the selector claims, stated on the inputs and the result only.

Selected == pc \in {"selected", "reselected"}

TokensAt(p) == Get(token_counts, turns[p].index)

IsUserAt(p) == turns[p].kind = "user"

IsShortSystemAt(p) == turns[p].kind = "system" /\ TokensAt(p) <= short_threshold

IsLongSystemAt(p) == turns[p].kind = "system" /\ TokensAt(p) > short_threshold

IsLastSystemAt(p) ==
    /\ turns[p].kind = "system"
    /\ \A q \in (p + 1)..Len(turns) : turns[q].kind # "system"

IsAlwaysKeptAt(p) == IsUserAt(p) \/ IsShortSystemAt(p) \/ IsLastSystemAt(p)

AlwaysKeptTokens ==
    SeqSum([p \in 1..Len(turns) |-> IF IsAlwaysKeptAt(p) THEN TokensAt(p) ELSE 0])

TotalTokens == SeqSum([p \in 1..Len(turns) |-> TokensAt(p)])

KeptIndices(r) == {r.kept_turns[k].index : k \in 1..Len(r.kept_turns)}

KeptTokens(r) ==
    SeqSum([k \in 1..Len(r.kept_turns) |-> Get(token_counts, r.kept_turns[k].index)])

Elems(s) == {s[k] : k \in 1..Len(s)}

\* Scored turns that the greedy fill (not the always-kept tier) kept.
GreedyKept(r) == {st \in Elems(r.visited) : st \in Elems(r.kept_scored)}

\* C1: kept_turns contains every user turn, every system turn with
\* tokens <= short_threshold and the last system turn of the list, whatever
\* the budget.
C1_AlwaysKeptSuperset ==
    Selected =>
        \A p \in 1..Len(turns) :
            IsAlwaysKeptAt(p) => turns[p] \in Elems(result.kept_turns)

\* C1 witness: the always-kept tier alone exceeds the budget, it holds a user
\* turn and a long last system turn, and all of them were kept.
C1_Witness ==
    /\ Selected
    /\ AlwaysKeptTokens > budget
    /\ \E p \in 1..Len(turns) : IsUserAt(p)
    /\ \E p \in 1..Len(turns) : IsLastSystemAt(p) /\ IsLongSystemAt(p)
    /\ \E p \in 1..Len(turns) : IsShortSystemAt(p)

\* C2: when the always-kept tier fits the budget, the kept turns total at
\* most the budget.
C2_FeasibleBudgetRespected ==
    (Selected /\ AlwaysKeptTokens <= budget) => KeptTokens(result) <= budget

\* C2 witness: a feasible budget under which the greedy fill kept one scored
\* turn and dropped another.
C2_Witness ==
    /\ Selected
    /\ AlwaysKeptTokens <= budget
    /\ GreedyKept(result) # {}
    /\ result.dropped_turns # <<>>

\* C3 as stated: a non-negative budget is never exceeded by the kept turns.
C3_Original_NonNegativeBudgetRespected ==
    (Selected /\ budget >= 0) => KeptTokens(result) <= budget

\* C3 amended: with a non-negative budget the kept turns total at most the
\* larger of the budget and the token total of the always-kept tier.
C3_BudgetOrAlwaysKept ==
    (Selected /\ budget >= 0) =>
        KeptTokens(result) <= Max({budget, AlwaysKeptTokens})

\* C3 witness: a non-negative budget that the always-kept tier overshoots
\* while a scored turn is dropped.
C3_Witness ==
    /\ Selected
    /\ budget >= 0
    /\ KeptTokens(result) > budget
    /\ result.dropped_turns # <<>>

\* C4: kept_turns is strictly ascending by index and a subsequence of the
\* input turn list.
C4_KeptOrderedSubsequence ==
    Selected =>
        LET kt == result.kept_turns
        IN  /\ \A k, l \in 1..Len(kt) : k < l => kt[k].index < kt[l].index
            /\ \E pos \in [1..Len(kt) -> 1..Len(turns)] :
                   /\ \A k \in 1..Len(kt) : turns[pos[k]] = kt[k]
                   /\ \A k, l \in 1..Len(kt) : k < l => pos[k] < pos[l]

\* C4 witness: the greedy fill visited and kept two turns in descending
\* index order.
C4_Witness ==
    /\ Selected
    /\ Len(result.visited) >= 2
    /\ result.visited[1].turn.index > result.visited[2].turn.index
    /\ {result.visited[1], result.visited[2]} \subseteq GreedyKept(result)

\* C5: every scored turn is either kept (in kept_turns and in kept_scored) or
\* in dropped_turns, never both, never neither; no dropped index is kept.
C5_ScoredKeptXorDropped ==
    Selected =>
        /\ \A k \in 1..Len(scored) :
               LET st      == scored[k]
                   kept    == /\ st.turn.index \in KeptIndices(result)
                              /\ st \in Elems(result.kept_scored)
                   dropped == st \in Elems(result.dropped_turns)
               IN  (kept /\ ~dropped) \/ (dropped /\ ~kept)
        /\ \A k \in 1..Len(result.dropped_turns) :
               result.dropped_turns[k].turn.index \notin KeptIndices(result)

\* C5 witness: the last system turn is long and scored, one scored turn was
\* kept by the greedy fill and one was dropped.
C5_Witness ==
    /\ Selected
    /\ \E p \in 1..Len(turns) : IsLastSystemAt(p) /\ IsLongSystemAt(p)
    /\ GreedyKept(result) # {}
    /\ result.dropped_turns # <<>>

\* C6: with no long system turn, or with all turns totalling at most the
\* budget, every input turn is kept unchanged and nothing is dropped.
C6_KeepEverything ==
    (Selected /\ (TotalTokens <= budget
                  \/ \A p \in 1..Len(turns) : ~IsLongSystemAt(p))) =>
        /\ result.kept_turns = turns
        /\ result.dropped_turns = <<>>

\* C6 witness: the turns total exactly the budget and the greedy fill had
\* two scored turns to place.
C6_Witness ==
    /\ Selected
    /\ TotalTokens = budget
    /\ Len(result.visited) >= 2
    /\ result.kept_turns = turns

\* C7: select_turns run on its own output keeps the same turns.
C7_SelectorIdempotent ==
    pc = "reselected" =>
        /\ rerun.kept_turns = result.kept_turns
        /\ rerun.dropped_turns = <<>>

\* C7 witness: the first run dropped a turn and kept a scored one by the
\* greedy fill, and the second run has run.
C7_Witness ==
    /\ pc = "reselected"
    /\ result.dropped_turns # <<>>
    /\ GreedyKept(result) # {}
    /\ Len(rerun.kept_turns) < Len(turns)

---------------------------------------------------------------------------
\* lib/parser.py parse_jsonl and plugins/codex-cli/codex_parser.py
\* parse_codex_jsonl, one action per branch of the loop over the lines.
\*
\* A line is [json, type, role, tool, content]:
\*   json    what strip and json.loads make of the line:
\*             "blank"      empty after strip
\*             "malformed"  json.loads raises JSONDecodeError
\*             "unloadable" not valid JSON either, but json.loads raises
\*                          RecursionError (a line of very many "[")
\*             "nonobject"  valid JSON that is not an object (123, [], null)
\*             "object"     a JSON object
\*   type    record.get("type", "")
\*   role    payload.get("role")                          (Codex)
\*   tool    record.get("sourceToolAssistantUUID") truthy (Claude Code)
\*   content shape of message.content: "str" | "text_list" | "tool_result_list" | "none"

Line(json, type, role, tool, content) ==
    [json |-> json, type |-> type, role |-> role, tool |-> tool, content |-> content]

ClaudeLines ==
    { Line("blank", "", "none", FALSE, "none"),
      Line("malformed", "", "none", FALSE, "none"),
      Line("unloadable", "", "none", FALSE, "none"),
      Line("nonobject", "", "none", FALSE, "none"),
      Line("object", "progress", "none", FALSE, "none"),
      Line("object", "system", "none", FALSE, "str"),
      Line("object", "user", "none", FALSE, "str"),
      Line("object", "user", "none", FALSE, "text_list"),
      Line("object", "user", "none", FALSE, "tool_result_list"),
      Line("object", "user", "none", TRUE, "str"),
      Line("object", "user", "none", FALSE, "none"),
      Line("object", "assistant", "none", FALSE, "text_list") }

CodexLines ==
    { Line("blank", "", "none", FALSE, "none"),
      Line("malformed", "", "none", FALSE, "none"),
      Line("unloadable", "", "none", FALSE, "none"),
      Line("nonobject", "", "none", FALSE, "none"),
      Line("object", "session_meta", "none", FALSE, "none"),
      Line("object", "event_msg", "none", FALSE, "none"),
      Line("object", "compacted", "none", FALSE, "none"),
      Line("object", "turn_context", "none", FALSE, "none"),
      Line("object", "response_item", "user", FALSE, "text_list"),
      Line("object", "response_item", "assistant", FALSE, "text_list"),
      Line("object", "response_item", "developer", FALSE, "text_list"),
      Line("object", "unknown", "none", FALSE, "none") }

\* SKIP_TYPES of each parser.
ClaudeSkipTypes ==
    {"progress", "file-history-snapshot", "system", "summary", "queue-operation"}

CodexSkipTypes == {"session_meta", "event_msg"}

\* if not line_str: continue / except json.JSONDecodeError: continue
Unparsed(line) == line.json \in {"blank", "malformed"}

\* json.loads raises an exception that is not a JSONDecodeError (a
\* RecursionError on a line of very many opening brackets).
Unloadable(line) == line.json = "unloadable"

\* json.loads returned a dict, so that record.get(...) works.
IsRecord(line) == line.json = "object"

\* lib/parser.py _is_user_message
ClaudeIsUserMessage(record) ==
    IF record.type # "user" THEN FALSE
    ELSE IF record.tool THEN FALSE
    ELSE IF record.content = "str" THEN TRUE
    ELSE IF record.content \in {"text_list", "tool_result_list"}
         THEN record.content # "tool_result_list"
    ELSE FALSE

\* codex_parser.py _is_compacted, _is_user_turn_context, _is_user_message
CodexIsCompacted(record) == record.type = "compacted"

CodexIsUserTurnContext(record) == record.type = "turn_context"

CodexIsUserMessage(record) == record.type = "response_item" /\ record.role = "user"

\* Turn(kind=kind, index=index) and Turn.append(record)
NewTurn(kind, index) == [kind |-> kind, lines |-> <<>>, index |-> index]

TurnAppend(turn, record) == [turn EXCEPT !.lines = Append(@, record)]

\* if current_system and current_system.lines: turns.append(current_system)
Flushable(cs) == cs # <<>> /\ cs[1].lines # <<>>

Flushed(ts, cs) == IF Flushable(cs) THEN Append(ts, cs[1]) ELSE ts

\* current_system after that flush (set to None only when it was appended).
AfterFlush(cs) == IF Flushable(cs) THEN <<>> ELSE cs

\* MUTANT: the turns keep the provisional indices handed out while scanning.
ReindexSkipped(ts) == ts

\* for i, turn in enumerate(turns): turn.index = i
Reindex(ts) == [k \in 1..Len(ts) |-> [ts[k] EXCEPT !.index = k - 1]]

\* The record as stored in a turn: the line with its line number.
Rec(line) == [line |-> nread + 1, rec |-> line]

Reading(which) ==
    parser = which /\ ~p_done /\ p_error = "none" /\ nread < MaxRecords

InitParse ==
    /\ parser \in {"claude", "codex"}
    /\ p_turns = <<>>
    /\ current_system = <<>>
    /\ turn_index = 0
    /\ nread = 0
    /\ p_done = FALSE
    /\ stream = <<>>
    /\ p_error = "none"
    /\ pc = "idle"
    /\ turns = <<>>
    /\ token_counts = <<>>
    /\ scored = <<>>
    /\ budget = 0
    /\ short_threshold = 0
    /\ result = EmptyResult(0)
    /\ rerun = EmptyResult(0)
    /\ CovIdle
    /\ EvalIdle
    /\ BatchIdle
    /\ RemoteIdle
    /\ DedupIdle
    /\ CompactIdle
    /\ RestIdle

ParseFrame == UNCHANGED <<selVars, covVars, evalVars, batchVars, remoteVars, dedupVars,
                          compactVars, restVars,
                         pc, parser, p_done, p_error>>

\* A blank line or a line json.loads rejects (both parsers).
SkipUnparsedLine ==
    /\ \/ Reading("claude") /\ \E line \in ClaudeLines :
              Unparsed(line) /\ stream' = Append(stream, line)
       \/ Reading("codex") /\ \E line \in CodexLines :
              Unparsed(line) /\ stream' = Append(stream, line)
    /\ nread' = nread + 1
    /\ UNCHANGED <<p_turns, current_system, turn_index>>
    /\ ParseFrame

\* json.loads raises past "except json.JSONDecodeError" (both parsers): the
\* exception leaves the parser and no turn list is returned.
UnloadableLine ==
    /\ \/ Reading("claude") /\ \E line \in ClaudeLines :
              Unloadable(line) /\ stream' = Append(stream, line)
       \/ Reading("codex") /\ \E line \in CodexLines :
              Unloadable(line) /\ stream' = Append(stream, line)
    /\ nread' = nread + 1
    /\ p_error' = "RecursionError"
    /\ UNCHANGED <<p_turns, current_system, turn_index>>
    /\ UNCHANGED <<selVars, covVars, evalVars, batchVars, remoteVars, dedupVars, compactVars,
                   restVars, pc,
                   parser, p_done>>

\* record.get("type", "") on a value that is not a dict (both parsers).
NonObjectRecord ==
    /\ \/ Reading("claude") /\ \E line \in ClaudeLines :
              line.json = "nonobject" /\ stream' = Append(stream, line)
       \/ Reading("codex") /\ \E line \in CodexLines :
              line.json = "nonobject" /\ stream' = Append(stream, line)
    /\ nread' = nread + 1
    /\ p_error' = "AttributeError"
    /\ UNCHANGED <<p_turns, current_system, turn_index>>
    /\ UNCHANGED <<selVars, covVars, evalVars, batchVars, remoteVars, dedupVars, compactVars,
                   restVars, pc,
                   parser, p_done>>

\* parse_jsonl: if record_type in SKIP_TYPES: continue
ClaudeSkippedType ==
    /\ Reading("claude")
    /\ \E line \in ClaudeLines :
         /\ IsRecord(line)
         /\ line.type \in ClaudeSkipTypes
         /\ stream' = Append(stream, line)
    /\ nread' = nread + 1
    /\ UNCHANGED <<p_turns, current_system, turn_index>>
    /\ ParseFrame

\* parse_jsonl: if _is_user_message(record)
ClaudeUserMessage ==
    /\ Reading("claude")
    /\ \E line \in ClaudeLines :
         /\ IsRecord(line)
         /\ stream' = Append(stream, line)
         /\ line.type \notin ClaudeSkipTypes
         /\ ClaudeIsUserMessage(line)
         /\ p_turns' = Append(Flushed(p_turns, current_system),
                              TurnAppend(NewTurn("user", turn_index), Rec(line)))
         /\ current_system' = <<NewTurn("system", turn_index + 1)>>
         /\ turn_index' = turn_index + 2
    /\ nread' = nread + 1
    /\ ParseFrame

\* parse_jsonl: else branch, the record goes to the current system turn
ClaudeOtherRecord ==
    /\ Reading("claude")
    /\ \E line \in ClaudeLines :
         /\ IsRecord(line)
         /\ stream' = Append(stream, line)
         /\ line.type \notin ClaudeSkipTypes
         /\ ~ClaudeIsUserMessage(line)
         /\ IF current_system = <<>>
            THEN /\ current_system' = <<TurnAppend(NewTurn("system", turn_index), Rec(line))>>
                 /\ turn_index' = turn_index + 1
            ELSE /\ current_system' = <<TurnAppend(current_system[1], Rec(line))>>
                 /\ UNCHANGED turn_index
    /\ nread' = nread + 1
    /\ UNCHANGED p_turns
    /\ ParseFrame

\* parse_codex_jsonl: if record_type in SKIP_TYPES: continue
CodexSkippedType ==
    /\ Reading("codex")
    /\ \E line \in CodexLines :
         /\ IsRecord(line)
         /\ line.type \in CodexSkipTypes
         /\ stream' = Append(stream, line)
    /\ nread' = nread + 1
    /\ UNCHANGED <<p_turns, current_system, turn_index>>
    /\ ParseFrame

\* parse_codex_jsonl: if _is_compacted(record)
CodexCompacted ==
    /\ Reading("codex")
    /\ \E line \in CodexLines :
         /\ IsRecord(line)
         /\ stream' = Append(stream, line)
         /\ line.type \notin CodexSkipTypes
         /\ CodexIsCompacted(line)
         /\ p_turns' = Append(Flushed(p_turns, current_system),
                              TurnAppend(NewTurn("system", turn_index), Rec(line)))
         /\ current_system' = AfterFlush(current_system)
         /\ turn_index' = turn_index + 1
    /\ nread' = nread + 1
    /\ ParseFrame

\* parse_codex_jsonl: if _is_user_turn_context(record)
CodexTurnContext ==
    /\ Reading("codex")
    /\ \E line \in CodexLines :
         /\ IsRecord(line)
         /\ stream' = Append(stream, line)
         /\ line.type \notin CodexSkipTypes
         /\ ~CodexIsCompacted(line)
         /\ CodexIsUserTurnContext(line)
         /\ p_turns' = Append(Flushed(p_turns, current_system),
                              TurnAppend(NewTurn("user", turn_index), Rec(line)))
         /\ current_system' = <<NewTurn("system", turn_index + 1)>>
         /\ turn_index' = turn_index + 2
    /\ nread' = nread + 1
    /\ ParseFrame

\* parse_codex_jsonl: if _is_user_message(record)
CodexUserMessage ==
    /\ Reading("codex")
    /\ \E line \in CodexLines :
         /\ IsRecord(line)
         /\ stream' = Append(stream, line)
         /\ line.type \notin CodexSkipTypes
         /\ ~CodexIsCompacted(line)
         /\ ~CodexIsUserTurnContext(line)
         /\ CodexIsUserMessage(line)
         /\ LET ts == Flushed(p_turns, current_system)
            IN  IF ts # <<>> /\ ts[Len(ts)].kind = "user"
                THEN /\ p_turns' = [ts EXCEPT ![Len(ts)] = TurnAppend(@, Rec(line))]
                     /\ current_system' = <<NewTurn("system", turn_index)>>
                     /\ turn_index' = turn_index + 1
                ELSE /\ p_turns' = Append(ts, TurnAppend(NewTurn("user", turn_index), Rec(line)))
                     /\ current_system' = <<NewTurn("system", turn_index + 1)>>
                     /\ turn_index' = turn_index + 2
    /\ nread' = nread + 1
    /\ ParseFrame

\* parse_codex_jsonl: if record_type == "response_item"
CodexResponseItem ==
    /\ Reading("codex")
    /\ \E line \in CodexLines :
         /\ IsRecord(line)
         /\ stream' = Append(stream, line)
         /\ line.type \notin CodexSkipTypes
         /\ ~CodexIsCompacted(line)
         /\ ~CodexIsUserTurnContext(line)
         /\ ~CodexIsUserMessage(line)
         /\ line.type = "response_item"
         /\ IF current_system = <<>>
            THEN /\ current_system' = <<TurnAppend(NewTurn("system", turn_index), Rec(line))>>
                 /\ turn_index' = turn_index + 1
            ELSE /\ current_system' = <<TurnAppend(current_system[1], Rec(line))>>
                 /\ UNCHANGED turn_index
    /\ nread' = nread + 1
    /\ UNCHANGED p_turns
    /\ ParseFrame

\* parse_codex_jsonl: a record no branch takes falls off the loop body
CodexUnhandledType ==
    /\ Reading("codex")
    /\ \E line \in CodexLines :
         /\ IsRecord(line)
         /\ stream' = Append(stream, line)
         /\ line.type \notin CodexSkipTypes
         /\ ~CodexIsCompacted(line)
         /\ ~CodexIsUserTurnContext(line)
         /\ ~CodexIsUserMessage(line)
         /\ line.type # "response_item"
    /\ nread' = nread + 1
    /\ UNCHANGED <<p_turns, current_system, turn_index>>
    /\ ParseFrame

\* End of file (both parsers): flush the trailing system turn, re-index, return.
ParseFinish ==
    /\ parser \in {"claude", "codex"}
    /\ ~p_done
    /\ p_error = "none"
    /\ p_turns' = Reindex(Flushed(p_turns, current_system))
    /\ p_done' = TRUE
    /\ UNCHANGED <<current_system, turn_index, nread, parser, stream, p_error>>
    /\ UNCHANGED <<selVars, covVars, evalVars, batchVars, remoteVars, dedupVars, compactVars,
                   restVars, pc>>

NextParse ==
    \/ SkipUnparsedLine
    \/ UnloadableLine
    \/ NonObjectRecord
    \/ ClaudeSkippedType
    \/ ClaudeUserMessage
    \/ ClaudeOtherRecord
    \/ CodexSkippedType
    \/ CodexCompacted
    \/ CodexTurnContext
    \/ CodexUserMessage
    \/ CodexResponseItem
    \/ CodexUnhandledType
    \/ ParseFinish

SpecParse == InitParse /\ [][NextParse]_vars

\* C9: the returned turn list has indices 0, 1, ..., N-1 in list order.
C9_IndicesDense ==
    p_done => \A k \in 1..Len(p_turns) : p_turns[k].index = k - 1

\* C9 witness: a parse returned at least two turns after an empty system
\* accumulator, whose provisional index was already handed out, was discarded.
C9_Witness ==
    /\ p_done
    /\ Len(p_turns) >= 2
    /\ turn_index > Len(p_turns)
    /\ p_turns[Len(p_turns)].kind = "system"

\* C10: in a parsed conversation no two user turns are adjacent: a user turn
\* that is not the last turn is followed by a system turn.
C10_NoAdjacentUserTurns ==
    p_done =>
        \A k \in 1..(Len(p_turns) - 1) :
            p_turns[k].kind = "user" => p_turns[k + 1].kind = "system"

\* Vocabulary of the parser claims, stated on the stream and the turn list.

SkipTypesOf(which) == IF which = "claude" THEN ClaudeSkipTypes ELSE CodexSkipTypes

\* The record opens or joins a user turn.
IsUserRecord(which, line) ==
    IF which = "claude" THEN ClaudeIsUserMessage(line)
    ELSE CodexIsUserTurnContext(line) \/ CodexIsUserMessage(line)

\* A parseable record that is neither of a skipped type nor part of a user turn.
IsSystemRecord(which, line) ==
    /\ IsRecord(line)
    /\ line.type \notin SkipTypesOf(which)
    /\ ~IsUserRecord(which, line)

\* Line numbers of these records, in stream order.
SystemRecordNumbers ==
    SelectSeq([k \in 1..Len(stream) |-> k],
              LAMBDA k : IsSystemRecord(parser, stream[k]))

\* Line numbers of the records held by the system turns, in list order.
RECURSIVE SystemTurnNumbers(_)
SystemTurnNumbers(ts) ==
    IF ts = <<>> THEN <<>>
    ELSE (IF Head(ts).kind = "system"
          THEN [k \in 1..Len(Head(ts).lines) |-> Head(ts).lines[k].line]
          ELSE <<>>) \o SystemTurnNumbers(Tail(ts))

NoAdjacentSystemTurns(ts) ==
    \A k \in 1..(Len(ts) - 1) : ~(ts[k].kind = "system" /\ ts[k + 1].kind = "system")

\* C11: the system turns of a parsed conversation hold every parseable record
\* that is neither of a skipped type nor part of a user turn, each once and in
\* stream order, and all of them lying between two consecutive user turns are
\* in one system turn: no record is lost and no two system turns are adjacent.
C11_SystemTurnsAggregate ==
    p_done =>
        /\ SystemTurnNumbers(p_turns) = SystemRecordNumbers
        /\ NoAdjacentSystemTurns(p_turns)

\* A line that is not valid JSON (a blank line holds no JSON text either).
NotValidJson(line) == line.json \in {"blank", "malformed", "unloadable"}

\* The step reads one more line and that line is not valid JSON.
ReadsInvalidLine ==
    /\ nread' = nread + 1
    /\ NotValidJson(stream'[Len(stream')])

NoSkippedTypeInTurns ==
    \A t \in Elems(p_turns) \cup Elems(current_system) :
        \A k \in 1..Len(t.lines) : t.lines[k].rec.type \notin SkipTypesOf(parser)

\* C12: malformed lines are silently skipped: the parse never fails on a line
\* that is not valid JSON, reading such a line changes neither the turn list
\* nor the accumulator nor the next index (so the result is that of the stream
\* without these lines), and no record of a skipped type is held by any turn.
C12_MalformedLinesSkipped ==
    /\ [](p_error # "none" => ~NotValidJson(stream[Len(stream)]))
    /\ []NoSkippedTypeInTurns
    /\ [][ReadsInvalidLine => UNCHANGED <<p_turns, current_system, turn_index>>]_vars

---------------------------------------------------------------------------
\* lib/eval/entity_coverage.py: extract_entities, compute_coverage, evaluate.
\*
\* A turn's text is one of Texts. On this vocabulary extract_entities finds a
\* file_path in "/x/y.py" and an http_status in "404" followed, after
\* whitespace only, by "Not Found": also across the "\n" that joins two texts.

Texts == {"", "/x/y.py", "404", "Not Found"}

FilePathEntity   == <<"file_path", "/x/y.py">>
HttpStatusEntity == <<"http_status", "404">>
AllEntities      == {FilePathEntity, HttpStatusEntity}

\* ENTITY_TYPES, the weights in tenths.
EntityWeight ==
    [file_path |-> 10, error |-> 10, exception |-> 9, url |-> 8, port |-> 8,
     command |-> 7, package |-> 7, function |-> 5, class_name |-> 4,
     env_var |-> 4, http_status |-> 6]

\* extract_entities("\n".join(texts)).all_entities()
extract_entities(texts) ==
    LET w == SelectSeq(texts, LAMBDA t : t # "")
    IN  {e \in {FilePathEntity} : \E k \in 1..Len(w) : w[k] = "/x/y.py"}
        \cup
        {e \in {HttpStatusEntity} :
            \E k \in 1..(Len(w) - 1) : w[k] = "404" /\ w[k + 1] = "Not Found"}

\* suffix_of_type / kept_of_type = {v for t, v in all if t == etype}
OfType(all, etype) == {e[2] : e \in {x \in all : x[1] = etype}}

\* covered_of_type = suffix_of_type & kept_of_type
CoveredOfType(suffix_all, kept_all, etype) ==
    OfType(suffix_all, etype) \cap OfType(kept_all, etype)

\* The loop over ENTITY_TYPES: [total_weight, covered_weight] over the types in T.
RECURSIVE TypeWeights(_, _, _)
TypeWeights(T, suffix_all, kept_all) ==
    IF T = {} THEN [total_weight |-> 0, covered_weight |-> 0]
    ELSE LET etype == CHOOSE t \in T : TRUE
             rest  == TypeWeights(T \ {etype}, suffix_all, kept_all)
         IN  IF OfType(suffix_all, etype) = {} THEN rest
             ELSE [total_weight   |-> rest.total_weight
                       + EntityWeight[etype] * Cardinality(OfType(suffix_all, etype)),
                   covered_weight |-> rest.covered_weight
                       + EntityWeight[etype]
                         * Cardinality(CoveredOfType(suffix_all, kept_all, etype))]

\* compute_coverage(suffix_entities, kept_prefix_entities): weighted coverage
\* as the fraction num / den.
compute_coverage(suffix_all, kept_all) ==
    IF suffix_all = {} THEN [num |-> 1, den |-> 1]
    ELSE LET w == TypeWeights(DOMAIN EntityWeight, suffix_all, kept_all)
         IN  IF w.total_weight > 0
             THEN [num |-> w.covered_weight, den |-> w.total_weight]
             ELSE [num |-> 1, den |-> 1]

\* MUTANT: the call passes the kept entities where the suffix entities belong.
CoverageOfKeptSwapped(suffix_all, kept_all) == compute_coverage(kept_all, suffix_all)

\* evaluate: compute_coverage(suffix_entities, kept_entities)
CoverageOfKept(suffix_all, kept_all) == compute_coverage(suffix_all, kept_all)

\* kept_entities of evaluate: the entities of the joined texts of kept_turns.
KeptEntities(r, text) ==
    extract_entities([k \in 1..Len(r.kept_turns) |-> text[r.kept_turns[k].index]])

\* The prefix handed to evaluate's compaction step and the suffix entities:
\* at least one prefix turn and one suffix entity (evaluate raises otherwise);
\* user turns of one token that mention no entity, other turns of any text.
InitCoverage ==
    /\ SelectorInputs
    /\ Len(turns) >= 1
    /\ \A p \in 1..Len(turns) :
           /\ token_counts[turns[p].index] >= 1
           /\ turns[p].kind = "user" => token_counts[turns[p].index] = 1
    /\ turn_text \in [0..(Len(turns) - 1) -> Texts]
    /\ \A p \in 1..Len(turns) :
           turns[p].kind = "user" => turn_text[turns[p].index] = ""
    /\ suffix_entities \in (SUBSET AllEntities) \ {{}}
    /\ budget = 0
    /\ budget2 = 0
    /\ pc = "input"
    /\ result = EmptyResult(0)
    /\ rerun = EmptyResult(0)
    /\ result2 = EmptyResult(0)
    /\ cov1 = NoCoverage
    /\ cov2 = NoCoverage
    /\ ParseIdle
    /\ EvalIdle
    /\ BatchIdle
    /\ RemoteIdle
    /\ DedupIdle
    /\ CompactIdle
    /\ RestIdle

\* evaluate(turns, method, budget=b): select under b, measure the coverage.
Evaluate ==
    /\ pc = "input"
    /\ \E b \in 0..MaxBudget :
         LET r == select_turns(turns, scored, token_counts, b, short_threshold)
         IN  /\ budget' = b
             /\ result' = r
             /\ cov1' = CoverageOfKept(suffix_entities, KeptEntities(r, turn_text))
    /\ pc' = "evaluated_once"
    /\ UNCHANGED <<turns, token_counts, scored, short_threshold, rerun>>
    /\ UNCHANGED <<turn_text, suffix_entities, budget2, result2, cov2>>
    /\ UNCHANGED <<parseVars, evalVars, batchVars, remoteVars, dedupVars, compactVars, restVars>>

\* evaluate again with the other arguments fixed and a budget b2 >= budget.
EvaluateLarger ==
    /\ pc = "evaluated_once"
    /\ \E b \in budget..MaxBudget :
         LET r == select_turns(turns, scored, token_counts, b, short_threshold)
         IN  /\ budget2' = b
             /\ result2' = r
             /\ cov2' = CoverageOfKept(suffix_entities, KeptEntities(r, turn_text))
    /\ pc' = "evaluated"
    /\ UNCHANGED <<selVars, turn_text, suffix_entities, cov1>>
    /\ UNCHANGED <<parseVars, evalVars, batchVars, remoteVars, dedupVars, compactVars, restVars>>

NextCoverage == Evaluate \/ EvaluateLarger

SpecCoverage == InitCoverage /\ [][NextCoverage]_vars

\* a >= b for two coverage fractions
CoverageAtLeast(a, b) == a.num * b.den >= b.num * a.den

\* The suffix entities found in the text kept by a run.
CoveredBy(r) == suffix_entities \cap KeptEntities(r, turn_text)

---------------------------------------------------------------------------
\* lib/eval/entity_coverage.py evaluate, step by step: split, suffix
\* entities, method dispatch with scoring and selection; lib/scorer_base.py
\* get_scorer.
\*
\* split_ratio is the rational split_ratio / RatioDen and len(turns) *
\* split_ratio is computed exactly.

Ratios == 1..(RatioDen - 1)

\* int(x) for x = n / d: truncation towards zero
IntTrunc(n, d) == IF n >= 0 THEN n \div d ELSE 0 - ((0 - n) \div d)

\* while split_idx < len(turns) and turns[split_idx].kind != "user": split_idx += 1
RECURSIVE ScanToUser(_, _)
ScanToUser(ts, i) ==
    IF i < Len(ts) /\ ts[i + 1].kind # "user" THEN ScanToUser(ts, i + 1) ELSE i

\* MUTANT: the split stays at int(len(turns) * split_ratio), no scan.
SplitIndexUnscanned(ts, r) == IntTrunc(Len(ts) * r, RatioDen)

\* split_idx = int(len(turns) * split_ratio), then the scan for a user turn
SplitIndex(ts, r) == ScanToUser(ts, IntTrunc(Len(ts) * r, RatioDen))

\* turns[:i] and turns[i:]
Take(ts, i) == SubSeq(ts, 1, i)

Drop(ts, i) == SubSeq(ts, i + 1, Len(ts))

\* The method names a caller may pass.
MethodNames ==
    {"dedup", "eitf", "setcover", "embed", "llama-embed", "llama-rerank",
     "claude-code", "bogus"}

\* SCORERS.keys()
SCORERS == {"dedup", "eitf", "setcover", "embed", "llama-embed", "llama-rerank"}

\* get_scorer(method): the scorer's name, or the ValueError it raises
get_scorer(name) == IF name \notin SCORERS THEN "ValueError" ELSE name

\* The names the if / elif chain of evaluate has a branch for.
EvaluateBranches == {"dedup", "embed", "llama-embed", "llama-rerank"}

\* suffix_texts = [extract_text(t) for t in suffix_turns if t.kind == "system"]
SuffixTexts(suffix, text) ==
    LET sys == SelectSeq(suffix, LAMBDA t : t.kind = "system")
    IN  [k \in 1..Len(sys) |-> text[sys[k].index]]

\* evaluate(turns, method, budget, split_ratio, short_threshold): a parsed
\* conversation of at most MaxConv turns, user turns of 1 token and no entity,
\* system turns of MaxTok tokens (all long) with or without a file path.
InitEvaluate ==
    /\ \E n \in 0..MaxConv : \E kind \in [1..n -> Kinds] :
         /\ turns = MakeTurns(n, kind)
         /\ token_counts = [i \in 0..(n - 1) |->
                               IF kind[i + 1] = "user" THEN 1 ELSE MaxTok]
         /\ turn_text \in [0..(n - 1) -> {"", "/x/y.py"}]
         /\ \A i \in 0..(n - 1) : kind[i + 1] = "user" => turn_text[i] = ""
    /\ short_threshold = MaxTok - 1
    /\ budget \in {MaxTok, MaxBudget}
    /\ split_ratio \in Ratios
    /\ method \in MethodNames
    /\ split_idx = 0
    /\ prefix_turns = <<>>
    /\ suffix_turns = <<>>
    /\ eval_error = "none"
    /\ scorer_calls = 0
    /\ selector_calls = 0
    /\ scored = <<>>
    /\ result = EmptyResult(budget)
    /\ rerun = EmptyResult(budget)
    /\ suffix_entities = {}
    /\ budget2 = 0
    /\ result2 = EmptyResult(0)
    /\ cov1 = NoCoverage
    /\ cov2 = NoCoverage
    /\ pc = "input"
    /\ ParseIdle
    /\ BatchIdle
    /\ RemoteIdle
    /\ DedupIdle
    /\ CompactIdle
    /\ RestIdle

\* evaluate step 1: split, raise on an empty side, re-index the prefix.
EvaluateSplit ==
    /\ pc = "input"
    /\ LET s      == SplitIndex(turns, split_ratio)
           prefix == Take(turns, s)
           suffix == Drop(turns, s)
       IN  /\ split_idx' = s
           /\ suffix_turns' = suffix
           /\ IF prefix = <<>> \/ suffix = <<>>
              THEN /\ prefix_turns' = prefix
                   /\ eval_error' = "EmptySplit"
                   /\ pc' = "failed"
              ELSE /\ prefix_turns' = Reindex(prefix)
                   /\ eval_error' = "none"
                   /\ pc' = "split"
    /\ UNCHANGED <<split_ratio, method, scorer_calls, selector_calls>>
    /\ UNCHANGED <<selVars, covVars, parseVars, batchVars, remoteVars, dedupVars, compactVars,
                   restVars>>

\* evaluate steps 2 and 3: suffix entities (raise if there is none), token
\* counts of the prefix turns.
EvaluateSuffixEntities ==
    /\ pc = "split"
    /\ LET found == extract_entities(SuffixTexts(suffix_turns, turn_text))
       IN  /\ suffix_entities' = found
           /\ IF found = {}
              THEN /\ eval_error' = "NoEntities"
                   /\ pc' = "failed"
                   /\ UNCHANGED token_counts
              ELSE /\ eval_error' = "none"
                   /\ pc' = "counted"
                   /\ token_counts' = [i \in 0..(Len(prefix_turns) - 1) |-> token_counts[i]]
    /\ UNCHANGED <<turns, scored, budget, short_threshold, result, rerun>>
    /\ UNCHANGED <<turn_text, budget2, result2, cov1, cov2>>
    /\ UNCHANGED <<split_ratio, split_idx, prefix_turns, suffix_turns, method,
                   scorer_calls, selector_calls>>
    /\ UNCHANGED <<parseVars, batchVars, remoteVars, dedupVars, compactVars, restVars>>

\* evaluate steps 4 to 6: the if / elif chain on method (raise on a name it
\* has no branch for), the scorer, select_turns, the coverage.
EvaluateCompact ==
    /\ pc = "counted"
    /\ IF method \notin EvaluateBranches
       THEN /\ eval_error' = "UnknownMethod"
            /\ pc' = "failed"
            /\ UNCHANGED <<scored, result, cov1, scorer_calls, selector_calls>>
       ELSE \E score \in [0..(Len(prefix_turns) - 1) -> Scores] :
              LET long == LongSystem(prefix_turns, token_counts, short_threshold)
                  sc   == ScorerOutput(long, token_counts, score)
                  r    == select_turns(prefix_turns, sc, token_counts, budget,
                                       short_threshold)
              IN  /\ \A i \in 0..(Len(prefix_turns) - 1) :
                         score[i] # 0 => \E k \in 1..Len(long) : long[k].index = i
                  /\ scored' = sc
                  /\ scorer_calls' = scorer_calls + 1
                  /\ result' = r
                  /\ selector_calls' = selector_calls + 1
                  /\ cov1' = CoverageOfKept(suffix_entities, KeptEntities(r, turn_text))
                  /\ eval_error' = "none"
                  /\ pc' = "evaluated"
    /\ UNCHANGED <<turns, token_counts, budget, short_threshold, rerun>>
    /\ UNCHANGED <<turn_text, suffix_entities, budget2, result2, cov2>>
    /\ UNCHANGED <<split_ratio, split_idx, prefix_turns, suffix_turns, method>>
    /\ UNCHANGED <<parseVars, batchVars, remoteVars, dedupVars, compactVars, restVars>>

NextEvaluate == EvaluateSplit \/ EvaluateSuffixEntities \/ EvaluateCompact

SpecEvaluate == InitEvaluate /\ [][NextEvaluate]_vars

\* Vocabulary of the evaluation claims.

\* floor(r * N) for r = split_ratio / RatioDen and N = len(turns)
FloorOfRatio ==
    CHOOSE k \in 0..Len(turns) :
        /\ k * RatioDen <= split_ratio * Len(turns)
        /\ split_ratio * Len(turns) < (k + 1) * RatioDen

\* 0-based indices >= floor(r * N) whose turn is a user turn
UserIndicesFromFloor ==
    {i \in FloorOfRatio..(Len(turns) - 1) : turns[i + 1].kind = "user"}

\* The smallest of them, N if there is none.
ExpectedSplit ==
    IF UserIndicesFromFloor = {} THEN Len(turns)
    ELSE CHOOSE i \in UserIndicesFromFloor : \A j \in UserIndicesFromFloor : i <= j

EmptySide == prefix_turns = <<>> \/ suffix_turns = <<>>

C13_WitnessEmptySuffix ==
    /\ pc = "failed"
    /\ eval_error = "EmptySplit"
    /\ Len(turns) >= 2
    /\ suffix_turns = <<>>

\* The methods the specification lists as selectable by name.
SelectableMethods == {"dedup", "eitf", "setcover", "llama-embed", "llama-rerank"}

\* evaluate has reached its method dispatch.
Dispatched == pc = "evaluated" \/ eval_error = "UnknownMethod"

\* C15: method lookup fails with an unknown-method error exactly when the
\* name is not a registered scoring method: get_scorer raises exactly on the
\* names outside the registry, evaluate ends with UnknownMethod exactly on
\* them and then without a selector run, and every selectable method is
\* accepted by both.
C15_UnknownMethodExactly ==
    /\ \A name \in MethodNames :
           get_scorer(name) = "ValueError" <=> name \notin SCORERS
    /\ \A name \in SelectableMethods : get_scorer(name) # "ValueError"
    /\ Dispatched =>
           /\ eval_error = "UnknownMethod" <=> method \notin SCORERS
           /\ method \in SelectableMethods => eval_error # "UnknownMethod"
           /\ eval_error = "UnknownMethod" => selector_calls = 0

---------------------------------------------------------------------------
\* compact.py cmd_evaluate: the split, then the loop over the methods with
\* its try / except around _compact_prefix, then the export.
\*
\* A result row is modelled by the method it belongs to.

\* ALL_METHODS = list(SCORERS.keys())
ALL_METHODS == <<"dedup", "eitf", "setcover", "embed", "llama-embed", "llama-rerank">>

\* --method choices: list(SCORERS.keys()) + ["claude-code", "all"]
MethodChoices == SCORERS \cup {"claude-code", "all"}

\* _resolve_methods(method_arg)
ResolveMethods(method_arg) == IF method_arg = "all" THEN ALL_METHODS ELSE <<method_arg>>

\* MUTANT: the row of a method whose compaction raised is recorded all the same.
RowsAfterErrorRecorded(rows, name) == Append(rows, name)

\* except Exception: ...; continue  (the appends of this iteration are skipped)
RowsAfterError(rows, name) == rows

\* if probe_set is not None: evidence_results.append(ev_result)
EvidenceAppended(rows, probes, name) == IF probes THEN Append(rows, name) ELSE rows

\* _export_eval_json(evidence_results, entity_results, output_path)
ExportEvalJson(evidence, entity) ==
    IF evidence # <<>>
    THEN [i \in 1..Len(evidence) |->
             [method |-> evidence[i],
              entity_coverage |-> IF i <= Len(entity) THEN entity[i] ELSE "absent"]]
    ELSE [i \in 1..Len(entity) |-> [method |-> entity[i], entity_coverage |-> entity[i]]]

\* cmd_evaluate on a parsed conversation of at most MaxConv turns.
\* What the probe cache path of the conversation can hold.
ProbeCacheFiles == {"absent", "valid", "unparseable", "misshapen"}

\* load_probes(cache_dir, key): None when the file does not exist, else
\* ProbeSet.from_dict(json.loads(path.read_text())), whose exceptions
\* (json.JSONDecodeError, KeyError) are not caught.
load_probes(file) ==
    CASE file = "absent"      -> [probes |-> FALSE, error |-> "none"]
      [] file = "valid"       -> [probes |-> TRUE, error |-> "none"]
      [] file = "unparseable" -> [probes |-> FALSE, error |-> "JSONDecodeError"]
      [] file = "misshapen"   -> [probes |-> FALSE, error |-> "KeyError"]

InitBatch ==
    /\ \E n \in 0..MaxConv : \E kind \in [1..n -> Kinds] : turns = MakeTurns(n, kind)
    /\ split_ratio \in Ratios
    /\ method \in MethodChoices
    /\ token_counts = <<>>
    /\ scored = <<>>
    /\ budget = 0
    /\ short_threshold = 0
    /\ result = EmptyResult(0)
    /\ rerun = EmptyResult(0)
    /\ CovIdle
    /\ ParseIdle
    /\ probe_cache \in ProbeCacheFiles
    /\ methods = <<>>
    /\ method_pos = 0
    /\ probe_set = FALSE
    /\ evidence_results = <<>>
    /\ entity_results = <<>>
    /\ console = <<>>
    /\ exported = <<>>
    /\ RemoteIdle
    /\ DedupIdle
    /\ CompactIdle
    /\ RestIdle
    /\ split_idx = 0
    /\ prefix_turns = <<>>
    /\ suffix_turns = <<>>
    /\ eval_error = "none"
    /\ scorer_calls = 0
    /\ selector_calls = 0
    /\ pc = "input"

\* cmd_evaluate up to the loop: resolve the methods, split (return 1 on an
\* empty side), load the cached probes if there are any; an exception of
\* load_probes leaves cmd_evaluate.
BatchSetup ==
    /\ pc = "input"
    /\ LET s      == SplitIndex(turns, split_ratio)
           prefix == Take(turns, s)
           suffix == Drop(turns, s)
       IN  /\ split_idx' = s
           /\ prefix_turns' = prefix
           /\ suffix_turns' = suffix
           /\ methods' = ResolveMethods(method)
           /\ IF prefix = <<>> \/ suffix = <<>>
              THEN /\ pc' = "returned_1"
                   /\ eval_error' = "EmptySplit"
                   /\ UNCHANGED probe_set
              ELSE /\ pc' = IF load_probes(probe_cache).error = "none"
                            THEN "batch" ELSE "raised"
                   /\ eval_error' = load_probes(probe_cache).error
                   /\ probe_set' = load_probes(probe_cache).probes
    /\ UNCHANGED <<method_pos, probe_cache, evidence_results, entity_results, console,
                   exported>>
    /\ UNCHANGED <<split_ratio, method, scorer_calls, selector_calls>>
    /\ UNCHANGED <<selVars, covVars, parseVars, remoteVars, dedupVars, compactVars, restVars>>

BatchFrame ==
    UNCHANGED <<selVars, covVars, parseVars, evalVars, remoteVars, dedupVars, compactVars, restVars,
                methods, probe_set, probe_cache, exported, pc>>

\* One iteration whose _compact_prefix returns: both rows are appended.
BatchMethodCompacted ==
    /\ pc = "batch"
    /\ method_pos < Len(methods)
    /\ LET name == methods[method_pos + 1]
       IN  /\ console' = Append(console, [method |-> name, event |-> "compacted"])
           /\ evidence_results' = EvidenceAppended(evidence_results, probe_set, name)
           /\ entity_results' = Append(entity_results, name)
    /\ method_pos' = method_pos + 1
    /\ BatchFrame

\* One iteration whose _compact_prefix raises: the error is printed, continue.
BatchMethodFailed ==
    /\ pc = "batch"
    /\ method_pos < Len(methods)
    /\ LET name == methods[method_pos + 1]
       IN  /\ console' = Append(console, [method |-> name, event |-> "error"])
           /\ evidence_results' = RowsAfterError(evidence_results, name)
           /\ entity_results' = RowsAfterError(entity_results, name)
    /\ method_pos' = method_pos + 1
    /\ BatchFrame

\* After the loop: return 1 without any row, else print, export, return 0.
BatchFinish ==
    /\ pc = "batch"
    /\ method_pos = Len(methods)
    /\ IF evidence_results = <<>> /\ entity_results = <<>>
       THEN pc' = "returned_1" /\ UNCHANGED exported
       ELSE /\ pc' = "returned_0"
            /\ exported' = ExportEvalJson(evidence_results, entity_results)
    /\ UNCHANGED <<methods, method_pos, probe_set, probe_cache, evidence_results,
                   entity_results, console>>
    /\ UNCHANGED <<selVars, covVars, parseVars, evalVars, remoteVars, dedupVars, compactVars,
                   restVars>>

NextBatch == BatchSetup \/ BatchMethodCompacted \/ BatchMethodFailed \/ BatchFinish

SpecBatch == InitBatch /\ [][NextBatch]_vars

\* The methods whose compaction returned, in the order the loop met them.
CompactedMethods ==
    LET ok == SelectSeq(console, LAMBDA line : line.event = "compacted")
    IN  [k \in 1..Len(ok) |-> ok[k].method]

\* The loop has ended (the command returned after it).
BatchReturned == pc = "returned_0" \/ (pc = "returned_1" /\ eval_error = "none")

\* C14: in an evaluation batch a compaction failure of one method does not
\* end the batch: every method met so far was reported, in order, as compacted
\* or as an error; the entity rows are exactly those of the compacted methods
\* (none for a failed one); the command returns only after every method was
\* gone through; the evidence rows are absent or pair up, position by
\* position, with the entity row of the same method, also in the export.
C14_BatchContinuesAfterFailure ==
    /\ method_pos = Len(console)
    /\ \A k \in 1..Len(console) : console[k].method = methods[k]
    /\ entity_results = CompactedMethods
    /\ Len(evidence_results) \in {0, Len(entity_results)}
    /\ \A i \in 1..Len(evidence_results) : evidence_results[i] = entity_results[i]
    /\ BatchReturned => Len(console) = Len(methods)
    /\ \A i \in 1..Len(exported) : exported[i].entity_coverage = exported[i].method

\* C14 witness: a batch of several methods returned 0 with evidence rows
\* after one method failed and a later one was compacted.
C14_Witness ==
    /\ pc = "returned_0"
    /\ probe_set
    /\ exported # <<>>
    /\ \E k \in 1..(Len(console) - 1) :
           console[k].event = "error" /\ console[k + 1].event = "compacted"

---------------------------------------------------------------------------
\* lib/llama_embed.py LlamaEmbedScorer and lib/llama_rerank.py
\* LlamaRerankScorer: score_turns, one action per HTTP request.
\*
\* An embedding is a non-zero vector of dimension 1 (an integer); a document
\* is known to the server by its global position k (0-based).

Embeddings == {0 - 2, 1}

\* emb / np.linalg.norm(emb) in dimension 1
Normalised(e) == IF e < 0 THEN 0 - 1 ELSE 1

\* float((sim + 1.0) / 2.0), in 1/RecencyDen
EmbedScore(q, e) == ((q * e + 1) * RecencyDen) \div 2

\* The permutations of 1..k
Perms(k) == {f \in [1..k -> 1..k] : \A a, b \in 1..k : f[a] = f[b] => a = b}

\* Number of documents of the batch starting at i
BatchLen(n, i, size) == IF i + size <= n THEN size ELSE n - i

\* The items the server answers a batch with: item j (0-based in the batch)
\* carries the value of document i + j; they arrive in the order perm.
ServerItems(i, len, perm) ==
    [p \in 1..len |-> [index |-> perm[p] - 1, value |-> server_value[i + perm[p] - 1]]]

\* data.sort(key=lambda d: d["index"])
DataSortedByIndex(data) == SortByIndex(data)

\* index_score[i + item["index"]] = item["relevance_score"] for each item
RECURSIVE IndexScoreUpdated(_, _, _)
IndexScoreUpdated(scores, i, items) ==
    IF items = <<>> THEN scores
    ELSE LET g == i + Head(items).index
         IN  IndexScoreUpdated(
                 [k \in DOMAIN scores \cup {g} |->
                     IF k = g THEN Head(items).value ELSE scores[k]],
                 i, Tail(items))

InitRemote ==
    /\ remote \in {"llama-embed", "llama-rerank"}
    /\ \E n \in 0..MaxTurns :
         /\ system_turns = [k \in 1..n |-> [kind |-> "system", index |-> 2 * k - 1]]
         /\ token_counts = [i \in 0..(2 * n - 1) |-> IF i % 2 = 1 THEN MaxTok ELSE 1]
         /\ server_value \in [0..(n - 1) ->
                                 IF remote = "llama-embed" THEN Embeddings ELSE Scores]
    /\ batch_size \in 1..MaxBatch
    /\ batch_i = 0
    /\ query_emb = 0
    /\ doc_embs = <<>>
    /\ index_score = <<>>
    /\ response = <<>>
    /\ attempts = 0
    /\ remote_error = "none"
    /\ remote_results = <<>>
    /\ pc = "scoring"
    /\ turns = <<>>
    /\ scored = <<>>
    /\ budget = 0
    /\ short_threshold = 0
    /\ result = EmptyResult(0)
    /\ rerun = EmptyResult(0)
    /\ CovIdle
    /\ ParseIdle
    /\ EvalIdle
    /\ BatchIdle
    /\ DedupIdle
    /\ CompactIdle
    /\ RestIdle

RemoteFrame ==
    /\ UNCHANGED <<selVars, covVars, parseVars, evalVars, batchVars, dedupVars, compactVars,
                   restVars>>
    /\ UNCHANGED <<remote, system_turns, batch_size, server_value>>

\* A request is about to be sent.
RequestDue ==
    /\ pc = "scoring"
    /\ \/ remote = "llama-embed" /\ query_emb = 0
       \/ batch_i < Len(system_turns)

\* httpx.post raises or resp.raise_for_status() raises: nothing catches it.
RemoteRequestFails ==
    /\ RequestDue
    /\ attempts' = 1
    /\ remote_error' = "HTTPError"
    /\ pc' = "raised"
    /\ UNCHANGED <<batch_i, query_emb, doc_embs, index_score, response, remote_results>>
    /\ RemoteFrame

\* LlamaEmbedScorer.score_turns: query_emb = self._embed([query_text])
EmbedQuery ==
    /\ remote = "llama-embed"
    /\ pc = "scoring"
    /\ query_emb = 0
    /\ \E q \in Embeddings :
         /\ response' = <<[index |-> 0, value |-> q]>>
         /\ query_emb' = Normalised(q)
    /\ attempts' = 1
    /\ UNCHANGED <<batch_i, doc_embs, index_score, remote_error, remote_results, pc>>
    /\ RemoteFrame

\* LlamaEmbedScorer.score_turns: one iteration of the loop over the batches
EmbedBatch ==
    /\ remote = "llama-embed"
    /\ pc = "scoring"
    /\ query_emb # 0
    /\ batch_i < Len(system_turns)
    /\ LET len == BatchLen(Len(system_turns), batch_i, batch_size)
       IN  \E perm \in Perms(len) :
             LET items == ServerItems(batch_i, len, perm)
                 data  == DataSortedByIndex(items)
             IN  /\ response' = items
                 /\ doc_embs' = doc_embs \o [k \in 1..len |-> Normalised(data[k].value)]
    /\ batch_i' = batch_i + batch_size
    /\ attempts' = 1
    /\ UNCHANGED <<query_emb, index_score, remote_error, remote_results, pc>>
    /\ RemoteFrame

\* LlamaEmbedScorer.score_turns after the loop: np.concatenate (which raises
\* ValueError on an empty list of arrays), the similarities, the results.
EmbedFinish ==
    /\ remote = "llama-embed"
    /\ pc = "scoring"
    /\ query_emb # 0
    /\ batch_i >= Len(system_turns)
    /\ IF doc_embs = <<>>
       THEN /\ remote_error' = "ValueError"
            /\ pc' = "raised"
            /\ UNCHANGED remote_results
       ELSE /\ remote_results' =
                   [k \in 1..Len(system_turns) |->
                       [turn   |-> system_turns[k],
                        score  |-> EmbedScore(query_emb, doc_embs[k]),
                        tokens |-> Get(token_counts, system_turns[k].index)]]
            /\ pc' = "returned"
            /\ UNCHANGED remote_error
    /\ UNCHANGED <<batch_i, query_emb, doc_embs, index_score, response, attempts>>
    /\ RemoteFrame

\* LlamaRerankScorer.score_turns: one iteration of the loop over the batches
RerankBatch ==
    /\ remote = "llama-rerank"
    /\ pc = "scoring"
    /\ batch_i < Len(system_turns)
    /\ LET len == BatchLen(Len(system_turns), batch_i, batch_size)
       IN  \E perm \in Perms(len) :
             LET items == ServerItems(batch_i, len, perm)
             IN  /\ response' = items
                 /\ index_score' = IndexScoreUpdated(index_score, batch_i, items)
    /\ batch_i' = batch_i + batch_size
    /\ attempts' = 1
    /\ UNCHANGED <<query_emb, doc_embs, remote_error, remote_results, pc>>
    /\ RemoteFrame

\* LlamaRerankScorer.score_turns after the loop: index_score.get(idx, 0.0)
RerankFinish ==
    /\ remote = "llama-rerank"
    /\ pc = "scoring"
    /\ batch_i >= Len(system_turns)
    /\ remote_results' =
           [k \in 1..Len(system_turns) |->
               [turn   |-> system_turns[k],
                score  |-> Get(index_score, k - 1),
                tokens |-> Get(token_counts, system_turns[k].index)]]
    /\ pc' = "returned"
    /\ UNCHANGED <<batch_i, query_emb, doc_embs, index_score, response, attempts,
                   remote_error>>
    /\ RemoteFrame

NextRemote ==
    \/ RemoteRequestFails
    \/ EmbedQuery
    \/ EmbedBatch
    \/ EmbedFinish
    \/ RerankBatch
    \/ RerankFinish

SpecRemote == InitRemote /\ [][NextRemote]_vars

\* Vocabulary of the remote-scorer claims.

\* The score the k-th input turn (1-based) is due: what the server returned
\* for document k - 1, as a relevance score or through its embedding.
ServerScore(k) ==
    IF remote = "llama-rerank" THEN server_value[k - 1]
    ELSE EmbedScore(query_emb, Normalised(server_value[k - 1]))

\* C16: a request of a remote scorer that fails is tried again, up to 3
\* attempts; score_turns is left by a request error only after the third
\* attempt failed, and then with a RemoteScorerError.
C16_RetriesThenRemoteScorerError ==
    pc = "raised" /\ remote_error # "ValueError" =>
        attempts = 3 /\ remote_error = "RemoteScorerError"

\* C17: batch reassembly: unless a request failed, score_turns of a remote
\* scorer returns one ScoredTurn per input turn, in input order, whose score
\* is the value the server returned for that document, whatever the batch
\* size and the order of the items inside each response.
C17_BatchReassembly ==
    /\ pc = "raised" => remote_error = "HTTPError"
    /\ pc = "returned" =>
           /\ Len(remote_results) = Len(system_turns)
           /\ \A k \in 1..Len(system_turns) :
                  /\ remote_results[k].turn = system_turns[k]
                  /\ remote_results[k].score = ServerScore(k)

\* The part of the reassembly that holds: whenever score_turns returns, its
\* output is one ScoredTurn per input turn with the score of that document.
ReassemblyOfReturned ==
    pc = "returned" =>
        /\ Len(remote_results) = Len(system_turns)
        /\ \A k \in 1..Len(system_turns) :
               /\ remote_results[k].turn = system_turns[k]
               /\ remote_results[k].score = ServerScore(k)

---------------------------------------------------------------------------
\* lib/dedup.py: SuffixAutomaton (extend, propagate_counts,
\* match_repeated_length), _build_automaton, _turn_unique_ratio.
\*
\* A text is a sequence of characters; state i of the automaton is
\* sa_states[i + 1].

Alphabet == {"a", "b"}

\* The separator "\x00" that _build_automaton extends with after each turn.
Separator == "NUL"

\* link = -1
NoLink == 0 - 1

\* trans = {} of a new _State
NoTrans == [c \in {} |-> 0]

St(states, i) == states[i + 1]

SetSt(states, i, st) == [states EXCEPT ![i + 1] = st]

SetLink(states, i, target) == SetSt(states, i, [St(states, i) EXCEPT !.link = target])

\* trans[c] = target
WithTrans(trans, c, target) ==
    [k \in DOMAIN trans \cup {c} |-> IF k = c THEN target ELSE trans[k]]

\* SuffixAutomaton.__init__
InitialStates ==
    <<[len |-> 0, link |-> NoLink, trans |-> NoTrans, cnt |-> 0, first_pos |-> 0]>>

\* extend: while p != -1 and c not in self.states[p].trans:
\*             self.states[p].trans[c] = cur; p = self.states[p].link
RECURSIVE LinkNewState(_, _, _, _)
LinkNewState(states, p, c, cur) ==
    IF p # NoLink /\ c \notin DOMAIN St(states, p).trans
    THEN LinkNewState(
             SetSt(states, p, [St(states, p) EXCEPT !.trans = WithTrans(@, c, cur)]),
             St(states, p).link, c, cur)
    ELSE [states |-> states, p |-> p]

\* extend: while p != -1 and self.states[p].trans.get(c) == q:
\*             self.states[p].trans[c] = clone; p = self.states[p].link
RECURSIVE RedirectToClone(_, _, _, _, _)
RedirectToClone(states, p, c, q, clone) ==
    IF p # NoLink /\ c \in DOMAIN St(states, p).trans /\ St(states, p).trans[c] = q
    THEN RedirectToClone(
             SetSt(states, p, [St(states, p) EXCEPT !.trans = WithTrans(@, c, clone)]),
             St(states, p).link, c, q, clone)
    ELSE states

\* SuffixAutomaton.extend(c, pos): the new states and the new last
extend(states, last, c, pos) ==
    LET cur == Len(states)
        s1  == Append(states, [len |-> St(states, last).len + 1, link |-> NoLink,
                               trans |-> NoTrans, cnt |-> 1, first_pos |-> pos])
        w   == LinkNewState(s1, last, c, cur)
        p   == w.p
        s2  == w.states
    IN  IF p = NoLink
        THEN [states |-> SetLink(s2, cur, 0), last |-> cur]
        ELSE LET q == St(s2, p).trans[c]
             IN  IF St(s2, p).len + 1 = St(s2, q).len
                 THEN [states |-> SetLink(s2, cur, q), last |-> cur]
                 ELSE LET clone == Len(s2)
                          s3 == Append(s2, [len |-> St(s2, p).len + 1,
                                            link |-> St(s2, q).link,
                                            trans |-> St(s2, q).trans,
                                            cnt |-> 0,
                                            first_pos |-> St(s2, q).first_pos])
                          s4 == RedirectToClone(s3, p, c, q, clone)
                      IN  [states |-> SetLink(SetLink(s4, q, clone), cur, clone),
                           last |-> cur]

\* sorted(..., key=lambda i: -self.states[i].len) is stable: v goes behind
\* every state at least as long.
RECURSIVE InsertByLenDesc(_, _, _)
InsertByLenDesc(order, v, states) ==
    IF order = <<>> THEN <<v>>
    ELSE IF St(states, Head(order)).len >= St(states, v).len
         THEN <<Head(order)>> \o InsertByLenDesc(Tail(order), v, states)
    ELSE <<v>> \o order

RECURSIVE SortedByLenDesc(_, _)
SortedByLenDesc(n, states) ==
    IF n = 0 THEN <<>>
    ELSE InsertByLenDesc(SortedByLenDesc(n - 1, states), n - 1, states)

\* MUTANT: the states are gone through in the order they were created.
PropagationOrderByCreation(states) == [k \in 1..Len(states) |-> k - 1]

\* order = sorted(range(len(self.states)), key=lambda i: -self.states[i].len)
PropagationOrder(states) == SortedByLenDesc(Len(states), states)

\* for v in order: if link >= 0: self.states[link].cnt += self.states[v].cnt
RECURSIVE AddCounts(_, _)
AddCounts(states, order) ==
    IF order = <<>> THEN states
    ELSE LET v == Head(order)
             l == St(states, v).link
         IN  AddCounts(IF l >= 0
                       THEN SetSt(states, l,
                                  [St(states, l) EXCEPT !.cnt = @ + St(states, v).cnt])
                       ELSE states,
                       Tail(order))

\* SuffixAutomaton.propagate_counts
propagate_counts(states) == AddCounts(states, PropagationOrder(states))

\* while cur != 0 and c not in self.states[cur].trans:
\*     cur = self.states[cur].link; cur_len = self.states[cur].len
RECURSIVE FallBack(_, _, _, _)
FallBack(states, cur, cur_len, c) ==
    IF cur # 0 /\ c \notin DOMAIN St(states, cur).trans
    THEN FallBack(states, St(states, cur).link,
                  St(states, St(states, cur).link).len, c)
    ELSE [cur |-> cur, cur_len |-> cur_len]

\* while effective != 0 and self.states[effective].cnt < 2:
\*     effective = self.states[effective].link
\*     effective_len = self.states[effective].len
RECURSIVE EffectiveLen(_, _, _)
EffectiveLen(states, effective, effective_len) ==
    IF effective # 0 /\ St(states, effective).cnt < 2
    THEN EffectiveLen(states, St(states, effective).link,
                      St(states, St(states, effective).link).len)
    ELSE effective_len

\* The body of "for c in text" with the rest of the loop.
RECURSIVE MatchFrom(_, _, _, _)
MatchFrom(states, text, cur, cur_len) ==
    IF text = <<>> THEN <<>>
    ELSE LET c == Head(text)
             f == FallBack(states, cur, cur_len, c)
             n == IF c \in DOMAIN St(states, f.cur).trans
                  THEN [cur |-> St(states, f.cur).trans[c], cur_len |-> f.cur_len + 1]
                  ELSE [cur |-> 0, cur_len |-> 0]
         IN  <<EffectiveLen(states, n.cur, n.cur_len)>>
                 \o MatchFrom(states, Tail(text), n.cur, n.cur_len)

\* SuffixAutomaton.match_repeated_length(text)
match_repeated_length(states, text) == MatchFrom(states, text, 0, 0)

\* MUTANT: a match that overlaps the covered range is added whole.
NewlyCoveredWhole(i, ml, covered_until) ==
    IF i > covered_until THEN ml ELSE 0

\* What a match of length ml ending at i adds to duplicated:
\*   if start > covered_until: ml; elif i > covered_until: i - covered_until
NewlyCovered(i, ml, covered_until) ==
    IF i - ml + 1 > covered_until THEN ml
    ELSE IF i > covered_until THEN i - covered_until
    ELSE 0

\* for i, ml in enumerate(match_lens): ... (i counts from 0)
RECURSIVE Sweep(_, _, _, _, _)
Sweep(lens, i, min_len, covered_until, dup) ==
    IF i >= Len(lens) THEN dup
    ELSE IF lens[i + 1] >= min_len
         THEN Sweep(lens, i + 1, min_len, Max({covered_until, i}),
                    dup + NewlyCovered(i, lens[i + 1], covered_until))
    ELSE Sweep(lens, i + 1, min_len, covered_until, dup)

\* _turn_unique_ratio: unique / len(text) as an exact fraction, 1.0 as 1/1
TurnUniqueRatio(lens, text, min_len) ==
    IF text = <<>> THEN [num |-> 1, den |-> 1]
    ELSE [num |-> Len(text) - Sweep(lens, 0, min_len, 0 - 1, 0), den |-> Len(text)]

\* The texts of at most n characters
TextsUpTo(n) == UNION {[1..k -> Alphabet] : k \in 0..n}

RECURSIVE CorpusOf(_)
\* The string _build_automaton extends the automaton with: every turn's text
\* followed by the separator.
CorpusOf(texts) ==
    IF texts = <<>> THEN <<>>
    ELSE Head(texts) \o <<Separator>> \o CorpusOf(Tail(texts))

RECURSIVE TotalChars(_)
TotalChars(texts) ==
    IF texts = <<>> THEN 0 ELSE Len(Head(texts)) + TotalChars(Tail(texts))

InitDedup ==
    /\ turns = <<>>
    /\ token_counts = <<>>
    /\ scored = <<>>
    /\ budget = 0
    /\ short_threshold = 0
    /\ result = EmptyResult(0)
    /\ rerun = EmptyResult(0)
    /\ CovIdle
    /\ ParseIdle
    /\ EvalIdle
    /\ BatchIdle
    /\ RemoteIdle
    /\ CompactIdle
    /\ RestIdle
    /\ dedup_texts \in {ts \in UNION {[1..k -> TextsUpTo(MaxChars)] : k \in 1..MaxDedupTurns} :
                           TotalChars(ts) <= MaxChars}
    /\ min_repeat_len \in 0..MaxRepeatLen
    /\ sa_states = InitialStates
    /\ sa_last = 0
    /\ sa_pos = 0
    /\ scored_text = <<>>
    /\ match_lens = <<>>
    /\ duplicated = 0
    /\ unique_ratio = [num |-> 0, den |-> 1]
    /\ pc = "building"

DedupFrame ==
    UNCHANGED <<selVars, covVars, parseVars, evalVars, batchVars, remoteVars, compactVars,
                restVars>>

\* _build_automaton: sa.extend(c, pos) for the characters of a turn and
\* sa.extend("\x00", pos) after it; pos += 1
SaExtend ==
    /\ pc = "building"
    /\ sa_pos < Len(CorpusOf(dedup_texts))
    /\ LET e == extend(sa_states, sa_last, CorpusOf(dedup_texts)[sa_pos + 1], sa_pos)
       IN  /\ sa_states' = e.states
           /\ sa_last' = e.last
    /\ sa_pos' = sa_pos + 1
    /\ UNCHANGED <<dedup_texts, min_repeat_len, scored_text, match_lens, duplicated,
                   unique_ratio, pc>>
    /\ DedupFrame

\* _build_automaton: sa.propagate_counts() after the last turn
SaPropagateCounts ==
    /\ pc = "building"
    /\ sa_pos = Len(CorpusOf(dedup_texts))
    /\ sa_states' = propagate_counts(sa_states)
    /\ pc' = "built"
    /\ UNCHANGED <<dedup_texts, min_repeat_len, sa_last, sa_pos, scored_text, match_lens,
                   duplicated, unique_ratio>>
    /\ DedupFrame

\* dedup_scores: ratio = _turn_unique_ratio(sa, text, min_repeat_len) for one
\* system turn
ScoreTurn ==
    /\ pc \in {"built", "ratio"}
    /\ \E text \in TextsUpTo(MaxChars) :
         /\ scored_text' = text
         /\ match_lens' = IF text = <<>> THEN <<>>
                          ELSE match_repeated_length(sa_states, text)
         /\ duplicated' = IF text = <<>> THEN 0
                          ELSE Sweep(match_lens', 0, min_repeat_len, 0 - 1, 0)
         /\ unique_ratio' = TurnUniqueRatio(match_lens', text, min_repeat_len)
    /\ pc' = "ratio"
    /\ UNCHANGED <<dedup_texts, min_repeat_len, sa_states, sa_last, sa_pos>>
    /\ DedupFrame

NextDedup == SaExtend \/ SaPropagateCounts \/ ScoreTurn

SpecDedup == InitDedup /\ [][NextDedup]_vars

\* The end positions of u in T: the e with T[e - |u| + 1 .. e] = u. The empty
\* text ends at each of 0..|T|.
EndPositions(u, T) == {e \in Len(u)..Len(T) : SubSeq(T, e - Len(u) + 1, e) = u}

SubstringsOf(T) == {SubSeq(T, s, e) : s \in 1..(Len(T) + 1), e \in 0..Len(T)}

\* The state reached by reading u from state s, NoLink when a transition is
\* missing.
RECURSIVE StateOf(_, _, _)
StateOf(states, s, u) ==
    IF u = <<>> \/ s = NoLink THEN s
    ELSE StateOf(states,
                 IF Head(u) \in DOMAIN St(states, s).trans
                 THEN St(states, s).trans[Head(u)] ELSE NoLink,
                 Tail(u))

\* extend has been called for every character and propagate_counts has run.
AutomatonBuilt == pc \in {"built", "ratio"}

CntIsEndPositions(u) ==
    /\ StateOf(sa_states, 0, u) # NoLink
    /\ St(sa_states, StateOf(sa_states, 0, u)).cnt
           = Cardinality(EndPositions(u, CorpusOf(dedup_texts)))

\* C18 (as stated): once the automaton is built over a text T, for every
\* substring u of T the state reached by reading u from the initial state has
\* cnt equal to the number of end positions of u in T.
C18_OccurrenceCounts ==
    AutomatonBuilt => \A u \in SubstringsOf(CorpusOf(dedup_texts)) : CntIsEndPositions(u)

\* C18 (amended): once the automaton is built over a text T, for every
\* NONEMPTY substring u of T the state reached by reading u has cnt equal to the
\* number of end positions of u in T, so cnt >= 2 for every u that occurs at
\* least twice; the initial state, reached by the empty u, has cnt = |T|, one
\* less than the |T| + 1 end positions of the empty text.
C18_OccurrenceCountsNonempty ==
    AutomatonBuilt =>
        /\ \A u \in SubstringsOf(CorpusOf(dedup_texts)) \ {<<>>} :
               /\ CntIsEndPositions(u)
               /\ Cardinality(EndPositions(u, CorpusOf(dedup_texts))) >= 2
                      => St(sa_states, StateOf(sa_states, 0, u)).cnt >= 2
        /\ St(sa_states, 0).cnt = Len(CorpusOf(dedup_texts))

\* A built automaton in which extend has cloned a state and a substring of two
\* characters occurs twice.
C18_Witness ==
    /\ AutomatonBuilt
    /\ Len(sa_states) > Len(CorpusOf(dedup_texts)) + 1
    /\ \E u \in SubstringsOf(CorpusOf(dedup_texts)) :
         /\ Len(u) >= 2
         /\ Cardinality(EndPositions(u, CorpusOf(dedup_texts))) >= 2

\* u occurs at least twice in the text the automaton was built over.
Repeated(u) == Cardinality(EndPositions(u, CorpusOf(dedup_texts))) >= 2

\* The positions of text (counted from 1) inside some occurrence text[s..e] of
\* a repeated substring of at least min_len characters.
CoveredPositions(text, min_len) ==
    {j \in 1..Len(text) :
        \E s \in 1..j, e \in j..Len(text) :
            /\ e - s + 1 >= min_len
            /\ Repeated(SubSeq(text, s, e))}

\* The positions inside the matches the sweep goes through: a match of length
\* lens[e] >= min_len ending at e covers e - lens[e] + 1 .. e.
MatchedPositions(lens, min_len) ==
    {j \in 1..Len(lens) :
        \E e \in j..Len(lens) : lens[e] >= min_len /\ e - lens[e] + 1 <= j}

\* C19: the sweep of _turn_unique_ratio counts as duplicated exactly the number
\* of distinct positions of the text covered by a repeated match of length
\* >= min_repeat_len (each once, none missed), so 0 <= duplicated <= |T| and
\* the score (|T| - duplicated) / |T| lies in [0, 1]; the empty text scores 1.
C19_DedupScore ==
    pc = "ratio" =>
        /\ duplicated = Cardinality(CoveredPositions(scored_text, min_repeat_len))
        /\ duplicated = Cardinality(MatchedPositions(match_lens, min_repeat_len))
        /\ 0 <= duplicated /\ duplicated <= Len(scored_text)
        /\ scored_text # <<>> =>
               unique_ratio = [num |-> Len(scored_text) - duplicated,
                               den |-> Len(scored_text)]
        /\ scored_text = <<>> => unique_ratio = [num |-> 1, den |-> 1]
        /\ 0 <= unique_ratio.num /\ unique_ratio.num <= unique_ratio.den

\* A scored text with two overlapping matches of at least min_repeat_len >= 2
\* characters ending at neighbouring positions, and both covered and uncovered
\* positions.
C19_Witness ==
    /\ pc = "ratio"
    /\ min_repeat_len >= 2
    /\ \E e \in 1..(Len(match_lens) - 1) :
         match_lens[e] >= min_repeat_len /\ match_lens[e + 1] >= min_repeat_len
    /\ 0 < duplicated /\ duplicated < Len(scored_text)

\* The empty text has been scored.
C19_WitnessEmptyText == pc = "ratio" /\ scored_text = <<>> /\ unique_ratio.num = 1

---------------------------------------------------------------------------
\* compact.py cmd_compact and plugins/codex-cli/compact_codex.py
\* compact_session / _run_compaction: the two compact commands.

RECURSIVE ValuesSum(_, _)
ValuesSum(tc, keys) ==
    IF keys = {} THEN 0
    ELSE LET k == CHOOSE x \in keys : TRUE
         IN  tc[k] + ValuesSum(tc, keys \ {k})

\* total_tokens = sum(token_counts.values())
total_tokens(tc) == ValuesSum(tc, DOMAIN tc)

InitCompact ==
    /\ cli \in {"compact", "compact_codex"}
    /\ dry_run \in (IF cli = "compact" THEN BOOLEAN ELSE {FALSE})
    /\ output \in BOOLEAN
    /\ \E n \in 0..MaxTurns :
         \E kind \in [1..n -> Kinds], tc \in [0..(n - 1) -> 0..MaxTok] :
            /\ turns = MakeTurns(n, kind)
            /\ token_counts = tc
    /\ short_threshold \in 0..MaxThreshold
    /\ budget \in Budgets
    /\ scored = <<>>
    /\ result = EmptyResult(0)
    /\ rerun = EmptyResult(0)
    /\ stats = <<>>
    /\ written = <<>>
    /\ CovIdle
    /\ ParseIdle
    /\ EvalIdle
    /\ BatchIdle
    /\ RemoteIdle
    /\ DedupIdle
    /\ RestIdle
    /\ pc = "input"

CompactFrame ==
    UNCHANGED <<covVars, parseVars, batchVars, remoteVars, dedupVars, restVars,
                cli, dry_run, output,
                turns, token_counts, budget, short_threshold, rerun,
                split_ratio, split_idx, prefix_turns, suffix_turns, method, eval_error>>

\* compact_session: if not turns: "No turns found in session file."; return 0
CompactNoTurns ==
    /\ pc = "input"
    /\ cli = "compact_codex"
    /\ turns = <<>>
    /\ pc' = "returned_0"
    /\ UNCHANGED <<scored, result, stats, written, scorer_calls, selector_calls>>
    /\ CompactFrame

\* if total_tokens <= budget: "Already within budget ..."; return 0
CompactWithinBudget ==
    /\ pc = "input"
    /\ ~(cli = "compact_codex" /\ turns = <<>>)
    /\ total_tokens(token_counts) <= budget
    /\ pc' = "returned_0"
    /\ UNCHANGED <<scored, result, stats, written, scorer_calls, selector_calls>>
    /\ CompactFrame

\* if not long_system: "No long system turns to score."; return 0
CompactNoLongSystem ==
    /\ pc = "input"
    /\ ~(cli = "compact_codex" /\ turns = <<>>)
    /\ total_tokens(token_counts) > budget
    /\ LongSystem(turns, token_counts, short_threshold) = <<>>
    /\ pc' = "returned_0"
    /\ UNCHANGED <<scored, result, stats, written, scorer_calls, selector_calls>>
    /\ CompactFrame

\* scored = random_scores(long_system, token_counts) if args.dry_run, else
\* scorer = get_scorer(method); scored = scorer.score(turns, long_system, ...)
CompactScore ==
    /\ pc = "input"
    /\ total_tokens(token_counts) > budget
    /\ LongSystem(turns, token_counts, short_threshold) # <<>>
    /\ \E score \in [0..(Len(turns) - 1) -> Scores] :
         LET long == LongSystem(turns, token_counts, short_threshold)
         IN  /\ \A i \in 0..(Len(turns) - 1) :
                    score[i] # 0 => \E k \in 1..Len(long) : long[k].index = i
             /\ scored' = ScorerOutput(long, token_counts, score)
    /\ scorer_calls' = IF dry_run THEN scorer_calls ELSE scorer_calls + 1
    /\ pc' = "scored"
    /\ UNCHANGED <<result, stats, written, selector_calls>>
    /\ CompactFrame

\* The scorer raises (a remote scorer's request fails): the command ends with
\* the exception.
CompactScorerRaises ==
    /\ pc = "input"
    /\ ~dry_run
    /\ total_tokens(token_counts) > budget
    /\ LongSystem(turns, token_counts, short_threshold) # <<>>
    /\ scorer_calls' = scorer_calls + 1
    /\ pc' = "raised"
    /\ UNCHANGED <<scored, result, stats, written, selector_calls>>
    /\ CompactFrame

\* result = select_turns(...); print_stats(result); the result is written
\* when an output path was given; return 0
CompactSelect ==
    /\ pc = "scored"
    /\ result' = select_turns(turns, scored, token_counts, budget, short_threshold)
    /\ selector_calls' = selector_calls + 1
    /\ stats' = Append(stats, result')
    /\ written' = IF output THEN Append(written, result') ELSE written
    /\ pc' = "returned_0"
    /\ UNCHANGED <<scored, scorer_calls>>
    /\ CompactFrame

NextCompact ==
    \/ CompactNoTurns
    \/ CompactWithinBudget
    \/ CompactNoLongSystem
    \/ CompactScore
    \/ CompactScorerRaises
    \/ CompactSelect

SpecCompact == InitCompact /\ [][NextCompact]_vars

\* The conversation of a compact command is within the budget.
UnderBudget == cli # "none" /\ total_tokens(token_counts) <= budget

\* C20: when the total token count of the conversation is <= budget, the
\* command succeeds with a result that keeps all turns, so that compression
\* (kept tokens over input tokens) is 1.0, and no scorer is invoked at any
\* point of the run.
C20_AlreadyUnderBudget ==
    UnderBudget =>
        /\ scorer_calls = 0
        /\ pc # "raised"
        /\ pc = "returned_0" =>
               /\ stats # <<>>
               /\ \A k \in 1..Len(stats) :
                      /\ stats[k].kept_turns = turns
                      /\ KeptTokens(stats[k]) = stats[k].total_input_tokens
               /\ output => written = stats

\* What the commands do within the budget: they return 0 having invoked no
\* scorer and no selector, displayed no result and written no output.
UnderBudgetReturnsWithoutResult ==
    UnderBudget =>
        /\ scorer_calls = 0 /\ selector_calls = 0
        /\ pc \in {"input", "returned_0"}
        /\ stats = <<>> /\ written = <<>>

\* A command given an output path has returned 0 within the budget for a
\* conversation that has turns.
UnderBudgetReturned ==
    UnderBudget /\ pc = "returned_0" /\ turns # <<>> /\ output

---------------------------------------------------------------------------
\* Probe cache (lib/eval/cache.py load_probes as called by cmd_evaluate).

\* cmd_evaluate goes on without evidence coverage: no exception left it, no
\* probe set was loaded and no evidence row was made.
ContinuesWithoutEvidence ==
    /\ pc # "raised"
    /\ eval_error \in {"none", "EmptySplit"}
    /\ ~probe_set
    /\ evidence_results = <<>>

\* C21: a probe cache file that is present but unparseable is treated as
\* absent: load_probes returns no probe set instead of failing, and the
\* evaluation continues without evidence coverage.
C21_CorruptCacheTreatedAsAbsent ==
    probe_cache = "unparseable" => ContinuesWithoutEvidence

\* What holds when the file does not exist: the evaluation continues without
\* evidence coverage.
AbsentCacheSkipsEvidence ==
    probe_cache = "absent" => ContinuesWithoutEvidence

\* What the code does with a present file that cannot be loaded: the exception
\* of json.loads or of ProbeSet.from_dict leaves cmd_evaluate before any
\* method is gone through.
UnloadableCacheRaises ==
    (probe_cache \in {"unparseable", "misshapen"} /\ pc # "input"
         /\ eval_error # "EmptySplit") =>
        /\ pc = "raised"
        /\ eval_error = load_probes(probe_cache).error
        /\ console = <<>>

\* cmd_evaluate was left by the JSONDecodeError of an unparseable cache file.
UnparseableCacheRaised ==
    probe_cache = "unparseable" /\ pc = "raised" /\ eval_error = "JSONDecodeError"

---------------------------------------------------------------------------
\* Order of the greedy walk of select_turns.

\* The adjusted score of the k-th visited scored turn of r (scaled as AdjScore).
VisitedAdj(r, k) == AdjScore(r.visited[k], Len(turns))

VisitedDescending(r) ==
    \A k, l \in 1..Len(r.visited) : k < l => VisitedAdj(r, k) >= VisitedAdj(r, l)

\* C22: the scored turns are visited in descending adjusted score, and of two
\* turns with equal adjusted score the one with the larger index is visited
\* first.
C22_TiesLargerIndexFirst ==
    Selected =>
        /\ VisitedDescending(result)
        /\ \A k, l \in 1..Len(result.visited) :
               (k < l /\ VisitedAdj(result, k) = VisitedAdj(result, l))
                   => result.visited[k].turn.index > result.visited[l].turn.index

\* What the code does: the walk is in descending adjusted score, and turns
\* with equal adjusted score are visited in the order of the scored list, the
\* smaller index first.
TiesSmallerIndexFirst ==
    Selected =>
        /\ VisitedDescending(result)
        /\ \A k, l \in 1..Len(result.visited) :
               (k < l /\ VisitedAdj(result, k) = VisitedAdj(result, l))
                   => result.visited[k].turn.index < result.visited[l].turn.index

\* Two visited turns with equal adjusted score of which only the first fits.
TieDecidesKept ==
    /\ pc = "selected"
    /\ \E k \in 1..(Len(result.visited) - 1) :
         /\ VisitedAdj(result, k) = VisitedAdj(result, k + 1)
         /\ result.visited[k] \in Elems(result.kept_scored)
         /\ result.visited[k + 1] \in Elems(result.dropped_turns)

\* The tokens of the always-kept tier as select_turns charges them before the
\* walk: user turns, short system turns and the most recent system turn.
UsedBeforeWalk == AlwaysKeptTokens

\* remaining at the moment the k-th turn of the walk is visited (k = number of
\* visited turns + 1: after the walk), counted from the result alone: the
\* budget less the always-kept tier less the turns kept earlier in the walk.
RemainingAt(r, k) ==
    budget - UsedBeforeWalk
        - SeqSum([j \in 1..(k - 1) |->
                     IF r.visited[j] \in Elems(r.kept_scored)
                     THEN r.visited[j].tokens ELSE 0])

\* C23: walking the scored turns in order, a turn is kept iff its tokens are
\* <= the budget remaining when it is visited, remaining being reduced by the
\* kept turns only; a turn that does not fit is dropped and the walk goes on;
\* remaining never becomes negative through the fill, and when it is negative
\* at the start no scored turn is kept by the walk.
C23_GreedyFill ==
    Selected =>
        /\ \A k \in 1..Len(result.visited) :
               /\ result.visited[k] \in Elems(result.kept_scored)
                      <=> result.visited[k].tokens <= RemainingAt(result, k)
               /\ result.visited[k] \in Elems(result.dropped_turns)
                      <=> result.visited[k].tokens > RemainingAt(result, k)
        /\ result.scored_kept_tokens
               = RemainingAt(result, 1) - RemainingAt(result, Len(result.visited) + 1)
        /\ RemainingAt(result, 1) >= 0 =>
               \A k \in 1..(Len(result.visited) + 1) : RemainingAt(result, k) >= 0
        /\ RemainingAt(result, 1) < 0 =>
               /\ GreedyKept(result) = {}
               /\ RemainingAt(result, Len(result.visited) + 1) = RemainingAt(result, 1)

\* C23 witness: a visited turn that did not fit was dropped and a later,
\* smaller turn of the walk was kept.
C23_Witness ==
    /\ pc = "selected"
    /\ \E k, l \in 1..Len(result.visited) :
         /\ k < l
         /\ result.visited[k] \in Elems(result.dropped_turns)
         /\ result.visited[l] \in Elems(result.kept_scored)
         /\ result.visited[l].tokens < result.visited[k].tokens

\* The walk started with a negative remaining and kept nothing.
C23_WitnessNegativeStart ==
    /\ pc = "selected"
    /\ RemainingAt(result, 1) < 0
    /\ result.visited # <<>>

---------------------------------------------------------------------------
\* Token accounting of a SelectionResult (select_turns, formatter.print_stats).

\* print_stats: total_kept = user_tokens + short_system_tokens + scored_kept_tokens
total_kept(r) == r.user_tokens + r.short_system_tokens + r.scored_kept_tokens

KeptScoredTokens(r) == SeqSum([k \in 1..Len(r.kept_scored) |-> r.kept_scored[k].tokens])

\* The most recent system turn is long (it is kept by force, its tokens count
\* against the budget).
LastSystemIsLong == \E p \in 1..Len(turns) : IsLastSystemAt(p) /\ IsLongSystemAt(p)

\* C28: user_tokens + short_system_tokens + scored_kept_tokens equals the sum
\* of token counts over kept_turns, and scored_kept_tokens equals the sum of
\* tokens over kept_scored, for every input, also when the most recent system
\* turn is long.
C28_TokenAccounting ==
    Selected =>
        /\ total_kept(result) = KeptTokens(result)
        /\ result.scored_kept_tokens = KeptScoredTokens(result)

\* What the code keeps: the accounting is exact when the most recent system
\* turn is not long; when it is, its tokens are in neither scored_kept_tokens
\* nor short_system_tokens, so both sums fall short by exactly its tokens.
AccountingMissesLongLastSystem ==
    Selected =>
        /\ ~LastSystemIsLong =>
               /\ total_kept(result) = KeptTokens(result)
               /\ result.scored_kept_tokens = KeptScoredTokens(result)
        /\ \A p \in 1..Len(turns) :
               (IsLastSystemAt(p) /\ IsLongSystemAt(p)) =>
                   /\ total_kept(result) = KeptTokens(result) - TokensAt(p)
                   /\ result.scored_kept_tokens = KeptScoredTokens(result) - TokensAt(p)

\* A selection whose most recent system turn is long.
LongLastSystemSelected == pc = "selected" /\ LastSystemIsLong

---------------------------------------------------------------------------
\* lib/setcover.py setcover_scores, step 5 (scores from the selection order),
\* followed by the recency bonus and the sort of select_turns.
\*
\* With n_selected selected turns and N turns every score is a multiple of
\* 1 / (RecencyDen * ScoreUnit(n_selected, N)); scores and adjusted scores are
\* kept as integers in that unit.

\* 0.9 of "1.0 - 0.9 * (rank / (n_selected - 1))", as BaseDropNum / RecencyDen
BaseDropNum == 90

\* 0.01 of "max(base_score - 0.15 * recency, 0.01)", as MinScoreNum / RecencyDen
MinScoreNum == 1

RankSteps(n_selected) == IF n_selected > 1 THEN n_selected - 1 ELSE 1

ScoreUnit(n_selected, N) == RankSteps(n_selected) * (IF N > 0 THEN N ELSE 1)

\* base_score = 1.0 - 0.9 * (rank / (n_selected - 1)) if n_selected > 1 else 1.0
base_score(rank, n_selected, N) ==
    IF n_selected > 1
    THEN RecencyDen * ScoreUnit(n_selected, N)
             - BaseDropNum * rank * (IF N > 0 THEN N ELSE 1)
    ELSE RecencyDen * ScoreUnit(n_selected, N)

\* 0.15 * recency, recency = index / total_turns if total_turns > 0 else 0
RecencyBonus(index, n_selected, N) ==
    IF N > 0 THEN RecencyNum * index * RankSteps(n_selected) ELSE 0

\* selection_rank[index]
selection_rank(order, index) == (CHOOSE k \in 1..Len(order) : order[k] = index) - 1

\* The score of one system turn: max(base_score - 0.15 * recency, 0.01) when
\* it was selected, else 0.0
setcover_score(index, order, N) ==
    IF \E k \in 1..Len(order) : order[k] = index
    THEN Max({base_score(selection_rank(order, index), Len(order), N)
                  - RecencyBonus(index, Len(order), N),
              MinScoreNum * ScoreUnit(Len(order), N)})
    ELSE 0

\* results: one ScoredTurn per system turn, in the order of system_turns
SetcoverResults(sys, order, N) ==
    [k \in 1..Len(sys) |-> [index |-> sys[k], score |-> setcover_score(sys[k], order, N)]]

\* select_turns: adj_score = st.score + 0.15 * recency for the scored turns that
\* are not kept yet (the most recent system turn is), then the stable sort.
SelectorWalk(results, n_selected, N) ==
    LET last == IF results = <<>> THEN 0 - 1
                ELSE Max({results[k].index : k \in 1..Len(results)})
        todo == SelectSeq(results, LAMBDA st : st.index # last)
        adjusted == [k \in 1..Len(todo) |->
                        [adj |-> todo[k].score + RecencyBonus(todo[k].index, n_selected, N),
                         st  |-> todo[k]]]
        sorted == SortDesc(adjusted)
    IN  [k \in 1..Len(sorted) |-> sorted[k].st.index]

\* The system turns of a conversation that alternates user, system, ...
AlternatingSystemTurns(N) ==
    [k \in 1..(N \div 2) |-> 2 * k - 1]

\* A selection order over n of the system turns: the newest or the oldest n,
\* picked in ascending or in descending index order.
SelectionOrderOf(sys, n, newest, ascending) ==
    LET first == IF newest THEN Len(sys) - n ELSE 0
    IN  [k \in 1..n |-> IF ascending THEN sys[first + k] ELSE sys[first + n + 1 - k]]

InitRank ==
    /\ n_turns \in 0..MaxTotal
    /\ sc_system_turns = AlternatingSystemTurns(n_turns)
    /\ \E n \in 0..Len(sc_system_turns), newest \in BOOLEAN, ascending \in BOOLEAN :
         selected_order = SelectionOrderOf(sc_system_turns, n, newest, ascending)
    /\ sc_results = <<>>
    /\ walk = <<>>
    /\ turns = <<>>
    /\ token_counts = <<>>
    /\ scored = <<>>
    /\ budget = 0
    /\ short_threshold = 0
    /\ result = EmptyResult(0)
    /\ rerun = EmptyResult(0)
    /\ CovIdle
    /\ ParseIdle
    /\ EvalIdle
    /\ BatchIdle
    /\ RemoteIdle
    /\ DedupIdle
    /\ CompactIdle
    /\ GreedyIdle
    /\ JudgeIdle
    /\ PatchIdle
    /\ pc = "ordered"

RankFrame ==
    UNCHANGED <<selVars, covVars, parseVars, evalVars, batchVars, remoteVars, dedupVars,
                compactVars, greedyVars, n_turns, sc_system_turns, selected_order,
                judgeVars, patchVars>>

\* setcover_scores, step 5: the scores of the system turns
SetcoverAssignScores ==
    /\ pc = "ordered"
    /\ sc_results' = SetcoverResults(sc_system_turns, selected_order, n_turns)
    /\ pc' = "scored"
    /\ UNCHANGED walk
    /\ RankFrame

\* select_turns: recency bonus and sort of the scored turns
SelectorSort ==
    /\ pc = "scored"
    /\ walk' = SelectorWalk(sc_results, Len(selected_order), n_turns)
    /\ pc' = "sorted"
    /\ UNCHANGED sc_results
    /\ RankFrame

NextRank == SetcoverAssignScores \/ SelectorSort

SpecRank == InitRank /\ [][NextRank]_vars

\* The adjusted score the selector computes for the system turn `index`.
AdjustedOf(index) ==
    LET st == CHOOSE r \in Elems(sc_results) : r.index = index
    IN  st.score + RecencyBonus(index, Len(selected_order), n_turns)

IsSelected(index) == \E k \in 1..Len(selected_order) : selected_order[k] = index

\* A descending stable sort puts a before b: a has the larger adjusted score,
\* or the same and an earlier place in the scored list (a smaller index).
SortsBefore(a, b) ==
    \/ AdjustedOf(a) > AdjustedOf(b)
    \/ AdjustedOf(a) = AdjustedOf(b) /\ a < b

\* C24: after the selector adds its 0.15 * (index / N) bonus to the scores of
\* setcover_scores, the descending adjusted-score order of the selected turns
\* is the greedy selection order: rank 0 first, then rank 1, ...
C24_SelectionOrderPreserved ==
    pc = "sorted" =>
        \A k, l \in 1..Len(selected_order) :
            k < l => SortsBefore(selected_order[k], selected_order[l])

\* C29: after the selector's bonus no turn that the set-cover did not select
\* has an adjusted score >= that of a selected turn, so every selected turn is
\* visited before every non-selected one.
C29_SelectedBeforeNonSelected ==
    pc = "sorted" =>
        \A a, b \in Elems(sc_system_turns) :
            (IsSelected(a) /\ ~IsSelected(b)) => AdjustedOf(b) < AdjustedOf(a)

\* The score of a selected turn was raised to 0.01 by the max.
Clamped(index) ==
    /\ IsSelected(index)
    /\ base_score(selection_rank(selected_order, index), Len(selected_order), n_turns)
           - RecencyBonus(index, Len(selected_order), n_turns)
           < MinScoreNum * ScoreUnit(Len(selected_order), n_turns)

\* What the code keeps: the adjusted score of a selected turn whose score was
\* not raised by the max is its base_score, so such turns keep their selection
\* order, and a selected turn never has a smaller adjusted score than 0.1.
UnclampedKeepSelectionOrder ==
    pc = "sorted" =>
        /\ \A k, l \in 1..Len(selected_order) :
               (k < l /\ ~Clamped(selected_order[k]) /\ ~Clamped(selected_order[l]))
                   => AdjustedOf(selected_order[k]) > AdjustedOf(selected_order[l])
        /\ \A a \in Elems(sc_system_turns) :
               IsSelected(a) =>
                   10 * AdjustedOf(a) >= RecencyDen * ScoreUnit(Len(selected_order), n_turns)

\* The walk of the selector visits a later-selected turn before an earlier one.
WalkInvertsSelection ==
    /\ pc = "sorted"
    /\ \E i, j \in 1..Len(walk) :
         /\ i < j
         /\ IsSelected(walk[i]) /\ IsSelected(walk[j])
         /\ selection_rank(selected_order, walk[i]) > selection_rank(selected_order, walk[j])

\* The walk of the selector visits a non-selected turn before a selected one.
WalkNonSelectedFirst ==
    /\ pc = "sorted"
    /\ \E i, j \in 1..Len(walk) : i < j /\ ~IsSelected(walk[i]) /\ IsSelected(walk[j])

---------------------------------------------------------------------------
\* lib/setcover.py setcover_scores, steps 3 and 4: the greedy set-cover.
\*
\* Entity weights (type weight * log(N / count) * proximity, never negative,
\* 0 exactly for an entity found in every turn) are kept in tenths; token
\* counts are squares, so that sqrt(tokens) is an integer; a score is an
\* integer in units of 1 / (10 * N * SqrtDen).

\* token_counts of the model: 1 and 4, with square roots 1 and 2
TokenChoices == {1, 4}

\* A common multiple of the square roots of TokenChoices
SqrtDen == 2

\* math.sqrt(max(tokens, 1))
SqrtTokens(tokens) ==
    LET t == IF tokens > 1 THEN tokens ELSE 1
    IN  CHOOSE r \in 1..t : r * r = t

\* The number of turns an entity is found in (entity_turn_count)
entity_turn_count(sets, e) == Cardinality({i \in DOMAIN sets : e \in sets[i]})

\* always_kept_entities: the entities of the turns that are not in system_turns
always_kept_entities(sets, sys) ==
    UNION {sets[i] : i \in DOMAIN sets \ Elems(sys)}

\* marginal_weight = sum(entity_weight.get(e, 0.0) for e in new_entities)
RECURSIVE marginal_weight(_, _)
marginal_weight(weight, new_entities) ==
    IF new_entities = {} THEN 0
    ELSE LET e == CHOOSE x \in new_entities : TRUE
         IN  (IF e \in DOMAIN weight THEN weight[e] ELSE 0)
                 + marginal_weight(weight, new_entities \ {e})

\* score = efficiency + 0.3 * recency, efficiency = marginal_weight / sqrt(tokens)
GreedyScore(idx, sets, weight, tc, cov, N) ==
    marginal_weight(weight, sets[idx] \ cov) * N
            * (SqrtDen \div SqrtTokens(IF idx \in DOMAIN tc THEN tc[idx] ELSE 1))
        + (IF N > 0 THEN 3 * idx * SqrtDen ELSE 0)

\* MUTANT: a candidate as good as the best so far replaces it.
BetterOrEqual(score, best_score) == score >= best_score

\* if score > best_score
Better(score, best_score) == score > best_score

\* for idx in candidates: ... (best_idx, best_score) after the loop
RECURSIVE BestCandidate(_, _, _, _, _, _, _)
BestCandidate(cands, sets, weight, tc, cov, N, best) ==
    IF cands = <<>> THEN best
    ELSE LET idx == Head(cands)
             score == GreedyScore(idx, sets, weight, tc, cov, N)
         IN  BestCandidate(Tail(cands), sets, weight, tc, cov, N,
                 IF sets[idx] \ cov = {} THEN best
                 ELSE IF Better(score, best.score) THEN [idx |-> idx, score |-> score]
                 ELSE best)

\* best_idx = -1; best_score = -1.0; the for loop
best(cands, sets, weight, tc, cov, N) ==
    BestCandidate(cands, sets, weight, tc, cov, N,
                  [idx |-> 0 - 1, score |-> 0 - 10 * N * SqrtDen])

\* The ascending sequences of indices below N: the choices of system_turns
RECURSIVE AscendingSeqs(_)
AscendingSeqs(N) ==
    IF N = 0 THEN {<<>>}
    ELSE AscendingSeqs(N - 1) \cup {Append(s, N - 1) : s \in AscendingSeqs(N - 1)}

InitSetcover ==
    /\ n_turns \in 0..MaxCoverTurns
    /\ sc_system_turns \in AscendingSeqs(n_turns)
    /\ turn_entity_sets \in [0..(n_turns - 1) -> SUBSET AllEntities]
    /\ \E w \in [AllEntities -> 1..MaxWeight] :
         entity_weight =
             [e \in {x \in AllEntities : entity_turn_count(turn_entity_sets, x) > 0} |->
                 IF entity_turn_count(turn_entity_sets, e) = n_turns THEN 0 ELSE w[e]]
    /\ token_counts \in [0..(n_turns - 1) -> TokenChoices]
    /\ \A i \in 0..(n_turns - 1) : i \notin Elems(sc_system_turns) => token_counts[i] = 1
    /\ candidates = sc_system_turns
    /\ covered = always_kept_entities(turn_entity_sets, sc_system_turns)
    /\ selected_order = <<>>
    /\ sc_results = <<>>
    /\ walk = <<>>
    /\ turns = <<>>
    /\ scored = <<>>
    /\ budget = 0
    /\ short_threshold = 0
    /\ result = EmptyResult(0)
    /\ rerun = EmptyResult(0)
    /\ CovIdle
    /\ ParseIdle
    /\ EvalIdle
    /\ BatchIdle
    /\ RemoteIdle
    /\ DedupIdle
    /\ CompactIdle
    /\ JudgeIdle
    /\ PatchIdle
    /\ pc = "greedy"

GreedyFrame ==
    UNCHANGED <<selVars, covVars, parseVars, evalVars, batchVars, remoteVars, dedupVars,
                compactVars, n_turns, sc_system_turns, sc_results, walk,
                turn_entity_sets, entity_weight, judgeVars, patchVars>>

\* One iteration of "while candidates" that picks a turn.
SetcoverPick ==
    /\ pc = "greedy"
    /\ candidates # <<>>
    /\ LET b == best(candidates, turn_entity_sets, entity_weight, token_counts, covered,
                     n_turns)
       IN  /\ b.idx >= 0
           /\ selected_order' = Append(selected_order, b.idx)
           /\ covered' = covered \cup turn_entity_sets[b.idx]
           /\ candidates' = SelectSeq(candidates, LAMBDA c : c # b.idx)
    /\ UNCHANGED pc
    /\ GreedyFrame

\* The loop ends: no candidate is left, or none has a new entity (break).
SetcoverStop ==
    /\ pc = "greedy"
    /\ \/ candidates = <<>>
       \/ best(candidates, turn_entity_sets, entity_weight, token_counts, covered,
               n_turns).idx < 0
    /\ pc' = "ordered"
    /\ UNCHANGED <<selected_order, covered, candidates>>
    /\ GreedyFrame

NextSetcover == SetcoverPick \/ SetcoverStop \/ SetcoverAssignScores \/ SelectorSort

SpecSetcover == InitSetcover /\ [][NextSetcover]_vars

\* setcover_scores runs to its end once called.
SpecSetcoverFair == SpecSetcover /\ WF_vars(NextSetcover)

\* The score of candidate c in the current iteration.
ScoreNow(c) ==
    GreedyScore(c, turn_entity_sets, entity_weight, token_counts, covered, n_turns)

HasNewEntity(c) == turn_entity_sets[c] \ covered # {}

\* This step picks candidate b: b has an entity outside covered, no candidate
\* with a new entity has a larger score, none with the same score has a smaller
\* index, b was not picked before, covered gains the entities of b and b is a
\* candidate no more.
Picks(b) ==
    /\ b \in Elems(candidates)
    /\ b \notin Elems(selected_order)
    /\ HasNewEntity(b)
    /\ \A c \in Elems(candidates) :
           HasNewEntity(c) =>
               /\ ScoreNow(c) <= ScoreNow(b)
               /\ ScoreNow(c) = ScoreNow(b) => b <= c
    /\ selected_order' = Append(selected_order, b)
    /\ covered' = covered \cup turn_entity_sets[b]
    /\ Elems(candidates') = Elems(candidates) \ {b}

GreedyDone == pc # "greedy"

\* C25: covered starts as the entities of all turns that are not candidates;
\* each step picks a candidate with an entity outside covered that has the
\* maximal score among such candidates, the earliest index among equals, adds
\* its entities to covered and never picks it again; the loop terminates, and
\* then every unpicked candidate has all its entities in covered.
C25_GreedySetCover ==
    /\ [](selected_order = <<>> /\ ~GreedyDone =>
              covered = UNION {turn_entity_sets[i] :
                                  i \in (0..(n_turns - 1)) \ Elems(sc_system_turns)})
    /\ [][(selected_order' # selected_order \/ covered' # covered
               \/ candidates' # candidates)
              => \E b \in Elems(sc_system_turns) : Picks(b)]_vars
    /\ [](\A k, l \in 1..Len(selected_order) :
              k # l => selected_order[k] # selected_order[l])
    /\ <>GreedyDone
    /\ [](GreedyDone =>
              \A c \in Elems(sc_system_turns) :
                  c \notin Elems(selected_order) => turn_entity_sets[c] \subseteq covered)

\* C25 witness: the loop has ended after two picks, leaving a candidate with
\* entities unpicked.
C25_Witness ==
    /\ pc = "ordered"
    /\ Len(selected_order) >= 2
    /\ \E c \in Elems(sc_system_turns) :
         c \notin Elems(selected_order) /\ turn_entity_sets[c] # {}

\* Two candidates with a new entity share the maximal score of an iteration.
C25_WitnessTie ==
    /\ pc = "greedy"
    /\ \E a, b \in Elems(candidates) :
         /\ a < b
         /\ HasNewEntity(a) /\ HasNewEntity(b)
         /\ ScoreNow(a) = ScoreNow(b)
         /\ \A c \in Elems(candidates) : HasNewEntity(c) => ScoreNow(c) <= ScoreNow(a)

---------------------------------------------------------------------------
\* lib/eval/judge.py: calls of the OpenRouter API with retries.

MAX_CONCURRENCY  == 5
MAX_RETRIES      == 3
RETRY_BASE_DELAY == 2

\* except (httpx.HTTPStatusError, httpx.ReadTimeout, httpx.ConnectError)
RetryableErrors == {"HTTPStatusError", "ReadTimeout", "ConnectError"}

\* Exceptions of the try body that the except clause does not name: another
\* transport error of client.post, a response without choices
OtherErrors == {"WriteTimeout", "KeyError"}

\* What an attempt ends with: the content of the response, or an exception
Outcomes == {"ok"} \cup RetryableErrors \cup OtherErrors

\* max_tokens of the callers: the default and the judge's
MaxTokensChoices == {1024, 256}

\* MUTANT: the delay grows by the base delay with each retry.
RetryDelayLinear(attempt) == RETRY_BASE_DELAY * (attempt + 1)

\* delay = RETRY_BASE_DELAY * (2 ** attempt)
RetryDelay(attempt) == RETRY_BASE_DELAY * 2 ^ attempt

\* The call up to its first client.post: without an API key it raises
\* RuntimeError, else attempt 0 is posted.
CallStart(key, max_tokens) ==
    [at         |-> IF key THEN "post" ELSE "raised",
     attempt    |-> 0,
     last_err   |-> "none",
     error      |-> IF key THEN "none" ELSE "RuntimeError",
     responses  |-> <<>>,
     delays     |-> <<>>,
     max_tokens |-> max_tokens]

\* The awaited client.post of this attempt ends with outcome o: the call
\* returns, or starts asyncio.sleep(delay), or lets the exception through.
CallResponse(c, o) ==
    IF o = "ok"
      THEN [c EXCEPT !.at = "returned", !.responses = Append(@, o)]
    ELSE IF o \in RetryableErrors
      THEN [c EXCEPT !.at = "sleep", !.last_err = o, !.responses = Append(@, o),
                     !.delays = Append(@, RetryDelay(c.attempt))]
    ELSE [c EXCEPT !.at = "raised", !.error = o, !.responses = Append(@, o)]

\* asyncio.sleep(delay) is over: the next attempt of range(MAX_RETRIES) is
\* posted, or the loop is over and last_err is raised.
CallWake(c) ==
    IF c.attempt + 1 < MAX_RETRIES
      THEN [c EXCEPT !.at = "post", !.attempt = @ + 1]
    ELSE [c EXCEPT !.at = "raised", !.attempt = @ + 1, !.error = c.last_err]

CallOver(c) == c.at \in {"returned", "raised"}

\* select_turns has not been called.
SelIdle ==
    /\ turns = <<>>
    /\ token_counts = <<>>
    /\ scored = <<>>
    /\ budget = 0
    /\ short_threshold = 0
    /\ result = EmptyResult(0)
    /\ rerun = EmptyResult(0)

InitJudgeCall ==
    /\ api_key \in BOOLEAN
    /\ call = <<>>
    /\ judge_probes = {}
    /\ tasks = <<>>
    /\ sem = 0
    /\ answers = <<>>
    /\ SelIdle
    /\ CovIdle
    /\ ParseIdle
    /\ EvalIdle
    /\ BatchIdle
    /\ RemoteIdle
    /\ DedupIdle
    /\ CompactIdle
    /\ RankIdle
    /\ GreedyIdle
    /\ PatchIdle
    /\ pc = "judge_call"

JudgeFrame ==
    UNCHANGED <<selVars, covVars, parseVars, evalVars, batchVars, remoteVars, dedupVars,
                compactVars, rankVars, greedyVars, patchVars>>

\* _openrouter_generate_async is called.
JudgeCall ==
    /\ pc = "judge_call"
    /\ call = <<>>
    /\ \E mt \in MaxTokensChoices : call' = CallStart(api_key, mt)
    /\ UNCHANGED <<api_key, judge_probes, tasks, sem, answers, pc>>
    /\ JudgeFrame

\* The awaited request of the call ends.
JudgeResponse ==
    /\ pc = "judge_call"
    /\ call # <<>>
    /\ call.at = "post"
    /\ \E o \in Outcomes : call' = CallResponse(call, o)
    /\ UNCHANGED <<api_key, judge_probes, tasks, sem, answers, pc>>
    /\ JudgeFrame

\* The backoff sleep of the call ends.
JudgeWake ==
    /\ pc = "judge_call"
    /\ call # <<>>
    /\ call.at = "sleep"
    /\ call' = CallWake(call)
    /\ UNCHANGED <<api_key, judge_probes, tasks, sem, answers, pc>>
    /\ JudgeFrame

NextJudgeCall == JudgeCall \/ JudgeResponse \/ JudgeWake

SpecJudgeCall == InitJudgeCall /\ [][NextJudgeCall]_vars

\* The first k responses of the call are failures of a retryable kind.
RetryableUpTo(c, k) == \A j \in 1..k : c.responses[j] \in RetryableErrors

\* The waits of the call so far: 2 * 2^k seconds after attempt k.
BackoffDelays(n) == [k \in 1..n |-> 2 * 2 ^ (k - 1)]

\* C26: a call makes at most MAX_RETRIES = 3 attempts; it returns at the first
\* successful attempt; after a retryable failure on attempt k it waits
\* 2 * 2^k seconds before going on; after the third such failure it raises the
\* last error; any other exception is raised at once, without a wait or a
\* further attempt.
C26_JudgeRetry ==
    call # <<>> =>
        LET n == Len(call.responses)
        IN  /\ n <= MAX_RETRIES
            /\ RetryableUpTo(call, n - 1)
            /\ call.at = "post" => RetryableUpTo(call, n) /\ n < MAX_RETRIES
                                     /\ call.delays = BackoffDelays(n)
            /\ call.at = "sleep" => RetryableUpTo(call, n) /\ n >= 1
                                      /\ call.delays = BackoffDelays(n)
            /\ call.at = "returned" => call.responses[n] = "ok"
                                         /\ call.delays = BackoffDelays(n - 1)
            /\ call.at = "raised" /\ n > 0 /\ call.responses[n] \notin RetryableErrors =>
                   /\ call.responses[n] \in OtherErrors
                   /\ call.error = call.responses[n]
                   /\ call.delays = BackoffDelays(n - 1)
            /\ call.at = "raised" /\ n > 0 /\ call.responses[n] \in RetryableErrors =>
                   /\ n = MAX_RETRIES
                   /\ call.error = call.responses[n]
                   /\ call.delays = BackoffDelays(n)
            /\ call.at = "raised" /\ n = 0 => ~api_key /\ call.error = "RuntimeError"

\* C26 witness: the call raised the error of its third attempt after waiting
\* 2, 4 and 8 seconds.
C26_Witness ==
    /\ call # <<>>
    /\ call.at = "raised"
    /\ Len(call.responses) = MAX_RETRIES
    /\ call.error = "ConnectError"
    /\ call.delays = <<2, 4, 8>>

\* The call returned on its second attempt after one wait of 2 seconds.
C26_WitnessReturned ==
    /\ call # <<>>
    /\ call.at = "returned"
    /\ call.responses = <<"ReadTimeout", "ok">>
    /\ call.delays = <<2>>

\* An exception of another kind ended the call on its second attempt.
C26_WitnessOtherError ==
    /\ call # <<>>
    /\ call.at = "raised"
    /\ call.responses = <<"HTTPStatusError", "KeyError">>
    /\ call.delays = <<2>>

---------------------------------------------------------------------------
\* lib/eval/judge.py: generate_answers and score_answers, each a gather of
\* tasks that share one semaphore.

\* ANSWER_MODELS, in dict order
AnswerModelKeys == <<"capable", "cheap">>

\* Attempt outcomes of the gathered tasks: success, a retryable failure,
\* another exception
TaskOutcomes == {"ok", "ReadTimeout", "KeyError"}

\* Raw replies of the judge model: fenced or not, a JSON object or not, with
\* or without a "score"
RawJudgements ==
    {[fenced |-> f, object |-> TRUE, has_score |-> TRUE, score |-> v] :
         f \in BOOLEAN, v \in {0 - 1, 5}}
    \cup {[fenced |-> FALSE, object |-> TRUE, has_score |-> FALSE, score |-> 0],
          [fenced |-> FALSE, object |-> FALSE, has_score |-> FALSE, score |-> 0]}

\* No reply: the call has not returned
NoReply == [fenced |-> FALSE, object |-> FALSE, has_score |-> FALSE, score |-> 0]

\* The replies a call in state c may have returned to a scoring task
RepliesOf(c) == IF pc = "scoring" /\ c.at = "returned" THEN RawJudgements ELSE {NoReply}

\* ProbeAnswer(probe_id, model_key, model_label, answer): score defaults to -1
ProbeAnswer(probe_id, model_key, text) ==
    [probe_id |-> probe_id, model_key |-> model_key, answer |-> text,
     score |-> 0 - 1, judge_reasoning |-> ""]

\* for model_key, cfg in configs.items(): for probe in probe_set.probes
AnswerTasks(n) ==
    [t \in 1..(Len(AnswerModelKeys) * n) |->
        [at |-> "waiting", call |-> <<>>, answer |-> t,
         text |-> "", model_key |-> AnswerModelKeys[((t - 1) \div n) + 1],
         probe_id |-> ((t - 1) % n) + 1]]

\* The indices of the answers whose probe is in probe_map, in order
RECURSIVE FoundAnswers(_, _, _)
FoundAnswers(as, probes, k) ==
    IF k > Len(as) THEN <<>>
    ELSE IF as[k].probe_id \in probes
      THEN <<k>> \o FoundAnswers(as, probes, k + 1)
    ELSE FoundAnswers(as, probes, k + 1)

\* tasks.append(_score_one_answer(...)) for each answer with a probe
ScoreTasks(as, probes) ==
    LET found == FoundAnswers(as, probes, 1)
    IN  [t \in 1..Len(found) |->
            [at |-> "waiting", call |-> <<>>, answer |-> found[t],
             text |-> "", model_key |-> as[found[t]].model_key,
             probe_id |-> as[found[t]].probe_id]]

\* answer.score = 0; answer.judge_reasoning = "Probe not found"
MarkProbeNotFound(as, probes) ==
    [k \in 1..Len(as) |->
        IF as[k].probe_id \in probes THEN as[k]
        ELSE [as[k] EXCEPT !.score = 0, !.judge_reasoning = "Probe not found"]]

\* max(0, min(3, int(result.get("score", 0))))
ClampScore(v) == IF v < 0 THEN 0 ELSE IF v > 3 THEN 3 ELSE v

\* The try body of _score_one_answer after the call returned raw: the fence
\* is stripped, json.loads(raw) and the clamped score, or an exception.
JudgeScore(raw) ==
    IF ~raw.object THEN [failed |-> TRUE, score |-> 0]
    ELSE [failed |-> FALSE, score |-> ClampScore(IF raw.has_score THEN raw.score ELSE 0)]

\* MUTANT: the slot is released when a task starts its backoff sleep.
SlotsAfterReleaseOnSleep(c) == IF CallOver(c) \/ c.at = "sleep" THEN sem + 1 ELSE sem

\* The semaphore after a step of a holding task whose call is now c:
\* "async with sem" releases when the block is left.
SlotsAfter(c) == IF CallOver(c) THEN sem + 1 ELSE sem

\* A holding task goes on with its call in state c; when the call is over
\* the task leaves "async with sem" and is done: a task of generate_answers
\* with the text of its answer, text = f"[ERROR: {e}]" if the call raised.
TaskAfter(task, c) ==
    IF ~CallOver(c) THEN [task EXCEPT !.at = "holding", !.call = c]
    ELSE [task EXCEPT !.at = "done", !.call = <<>>,
                      !.text = IF pc = "scoring" THEN ""
                               ELSE IF c.at = "returned" THEN "answer"
                               ELSE "[ERROR: ...]"]

\* answer.score and answer.judge_reasoning once the call of a scoring task
\* is over.
ScoreAfter(answer, c, raw) ==
    IF ~CallOver(c) THEN answer
    ELSE IF c.at = "raised" \/ JudgeScore(raw).failed
      THEN [answer EXCEPT !.score = 0, !.judge_reasoning = "Judge error: ..."]
    ELSE [answer EXCEPT !.score = JudgeScore(raw).score, !.judge_reasoning = "reasoning"]

\* The answers of generate_answers for n probes, before they are scored
UnscoredAnswers(n) ==
    [t \in 1..(Len(AnswerModelKeys) * n) |->
        ProbeAnswer(((t - 1) % n) + 1, AnswerModelKeys[((t - 1) \div n) + 1], "answer")]

InitJudge ==
    /\ api_key \in BOOLEAN
    /\ call = <<>>
    /\ tasks = <<>>
    /\ sem = 0
    /\ \E n \in 0..MaxJudgeProbes :
         \/ /\ pc = "generate_called"
            /\ judge_probes = 1..n
            /\ answers = <<>>
         \/ /\ pc = "score_called"
            /\ judge_probes \in {1..n, 2..n}
            /\ answers = UnscoredAnswers(n)
    /\ SelIdle
    /\ CovIdle
    /\ ParseIdle
    /\ EvalIdle
    /\ BatchIdle
    /\ RemoteIdle
    /\ DedupIdle
    /\ CompactIdle
    /\ RankIdle
    /\ GreedyIdle
    /\ PatchIdle

\* _generate_answers_async up to the gather.
GenerateAnswersStart ==
    /\ pc = "generate_called"
    /\ sem' = MAX_CONCURRENCY
    /\ tasks' = AnswerTasks(Cardinality(judge_probes))
    /\ pc' = "generating"
    /\ UNCHANGED <<api_key, call, judge_probes, answers>>
    /\ JudgeFrame

\* _score_answers_async up to the gather.
ScoreAnswersStart ==
    /\ pc = "score_called"
    /\ sem' = MAX_CONCURRENCY
    /\ tasks' = ScoreTasks(answers, judge_probes)
    /\ answers' = MarkProbeNotFound(answers, judge_probes)
    /\ pc' = "scoring"
    /\ UNCHANGED <<api_key, call, judge_probes>>
    /\ JudgeFrame

\* Task t is past a retryable failure of its call.
Retrying(t) ==
    /\ tasks[t].at = "holding"
    /\ tasks[t].call.at = "sleep" \/ tasks[t].call.attempt > 0

\* The step of task t that leaves its call in state c (raw: the reply of the
\* judge if the call returned).
TaskStep(t, c, raw) ==
    /\ tasks' = [tasks EXCEPT ![t] = TaskAfter(tasks[t], c)]
    /\ answers' = IF pc = "scoring"
                    THEN [answers EXCEPT ![tasks[t].answer] = ScoreAfter(@, c, raw)]
                    ELSE answers
    /\ UNCHANGED <<api_key, call, judge_probes, pc>>
    /\ JudgeFrame

\* Task t enters "async with sem" and starts its call.
TaskAcquire(t) ==
    /\ pc \in {"generating", "scoring"}
    /\ tasks[t].at = "waiting"
    /\ sem > 0
    /\ LET c == CallStart(api_key, IF pc = "scoring" THEN 256 ELSE 1024)
       IN  /\ sem' = IF CallOver(c) THEN sem ELSE sem - 1
           /\ TaskStep(t, c, NoReply)

\* The awaited request of task t ends.
TaskResponse(t) ==
    /\ pc \in {"generating", "scoring"}
    /\ tasks[t].at = "holding"
    /\ tasks[t].call.at = "post"
    /\ \E o \in TaskOutcomes :
         LET c == CallResponse(tasks[t].call, o)
         IN  /\ o \in RetryableErrors /\ ~Retrying(t) =>
                    Cardinality({u \in DOMAIN tasks : Retrying(u)}) < MaxRetrying
             /\ sem' = SlotsAfter(c)
             /\ \E raw \in RepliesOf(c) : TaskStep(t, c, raw)

\* The backoff sleep of task t ends.
TaskWake(t) ==
    /\ pc \in {"generating", "scoring"}
    /\ tasks[t].at = "holding"
    /\ tasks[t].call.at = "sleep"
    /\ LET c == CallWake(tasks[t].call)
       IN  /\ sem' = SlotsAfter(c)
           /\ TaskStep(t, c, NoReply)

\* answers = await asyncio.gather(*tasks); return list(answers)
GatherAnswers ==
    /\ pc = "generating"
    /\ \A t \in DOMAIN tasks : tasks[t].at = "done"
    /\ answers' = [t \in DOMAIN tasks |->
                      ProbeAnswer(tasks[t].probe_id, tasks[t].model_key, tasks[t].text)]
    /\ pc' = "gathered"
    /\ UNCHANGED <<api_key, call, judge_probes, tasks, sem>>
    /\ JudgeFrame

\* await asyncio.gather(*tasks); return answers
GatherScores ==
    /\ pc = "scoring"
    /\ \A t \in DOMAIN tasks : tasks[t].at = "done"
    /\ pc' = "scored"
    /\ UNCHANGED <<api_key, call, judge_probes, tasks, sem, answers>>
    /\ JudgeFrame

NextJudge ==
    \/ GenerateAnswersStart
    \/ ScoreAnswersStart
    \/ \E t \in DOMAIN tasks : TaskAcquire(t)
    \/ \E t \in DOMAIN tasks : TaskResponse(t)
    \/ \E t \in DOMAIN tasks : TaskWake(t)
    \/ GatherAnswers
    \/ GatherScores

SpecJudge == InitJudge /\ [][NextJudge]_vars

\* The event loop runs every task that can go on; requests time out.
SpecJudgeFair == SpecJudge /\ WF_vars(NextJudge)

\* The tasks whose request is awaited, and the tasks inside "async with sem"
InFlight == {t \in DOMAIN tasks : tasks[t].at = "holding" /\ tasks[t].call.at = "post"}
Holding == {t \in DOMAIN tasks : tasks[t].at = "holding"}

Gathering == pc \in {"generating", "scoring"}

\* C30: at most MAX_CONCURRENCY = 5 requests are in flight at any time; a task
\* holds its slot of the semaphore from its first attempt through its retries
\* and backoff waits and gives it back when its call succeeds or fails; every
\* task eventually completes; an answer whose call failed is an "[ERROR: ...]"
\* text, a judgement that failed is a score of 0, and after score_answers every
\* answer has a score in 0..3.
C30_JudgeConcurrency ==
    /\ [](Cardinality(InFlight) <= MAX_CONCURRENCY)
    /\ [](Gathering => sem = MAX_CONCURRENCY - Cardinality(Holding))
    /\ [](\A t \in DOMAIN tasks :
              tasks[t].at = "holding" <=> (tasks[t].call # <<>> /\ ~CallOver(tasks[t].call)))
    /\ <>(pc \in {"gathered", "scored"})
    /\ [](pc \in {"gathered", "scored"} => \A t \in DOMAIN tasks : tasks[t].at = "done")
    /\ [][\A t \in DOMAIN tasks :
              (tasks[t].at = "holding" /\ tasks[t].call.at = "sleep"
                   /\ tasks'[t].at = "done") =>
                  /\ pc = "generating" => tasks'[t].text = "[ERROR: ...]"
                  /\ pc = "scoring" => answers'[tasks[t].answer].score = 0]_vars
    /\ [](pc = "gathered" =>
              /\ Len(answers) = Len(AnswerModelKeys) * Cardinality(judge_probes)
              /\ \A k \in DOMAIN answers : answers[k].answer \in {"answer", "[ERROR: ...]"})
    /\ [](pc = "scored" =>
              \A k \in DOMAIN answers :
                  /\ answers[k].score \in 0..3
                  /\ answers[k].judge_reasoning \in {"Judge error: ...", "Probe not found"}
                         => answers[k].score = 0)

\* C30 witness: a task waits for the semaphore while a task in its backoff
\* sleep holds one of the five slots.
C30_Witness ==
    /\ Gathering
    /\ sem = 0
    /\ Cardinality(InFlight) = MAX_CONCURRENCY - 1
    /\ \E t \in DOMAIN tasks : tasks[t].at = "holding" /\ tasks[t].call.at = "sleep"
    /\ \E t \in DOMAIN tasks : tasks[t].at = "waiting"

\* Five requests are in flight and a sixth task waits.
C30_WitnessFull ==
    /\ Cardinality(InFlight) = MAX_CONCURRENCY
    /\ \E t \in DOMAIN tasks : tasks[t].at = "waiting"

\* generate_answers returned six answers, one of them an error text.
C30_WitnessErrorAnswer ==
    /\ pc = "gathered"
    /\ Len(answers) > MAX_CONCURRENCY
    /\ \E k \in DOMAIN answers : answers[k].answer = "[ERROR: ...]"
    /\ \E k \in DOMAIN answers : answers[k].answer = "answer"

\* score_answers returned six answers, with a clamped score, a failed
\* judgement and a judgement without a score.
C30_WitnessScored ==
    /\ pc = "scored"
    /\ Len(answers) > MAX_CONCURRENCY
    /\ \E k \in DOMAIN answers : answers[k].score = 3
    /\ \E k \in DOMAIN answers : answers[k].judge_reasoning = "Judge error: ..."
    /\ \E k \in DOMAIN answers :
         answers[k].score = 0 /\ answers[k].judge_reasoning = "reasoning"

\* score_answers returned answers without a probe.
C30_WitnessProbeNotFound ==
    /\ pc = "scored"
    /\ \E k \in DOMAIN answers : answers[k].judge_reasoning = "Probe not found"
    /\ \E k \in DOMAIN answers : answers[k].score = 3

---------------------------------------------------------------------------
\* plugins/claude-code/scripts/patcher.py
\*
\* The content of cli.js is a sequence of segments: other code, a compaction
\* call of MW1 (two spellings of its minified names), a call of the same shape
\* whose prompt function lacks the MW1 marker, or the supercompact IIFE that
\* build_replacement writes for an MW1 call, which holds "SUPERCOMPACT_EITF".

Mw1Segments   == {"mw1_a", "mw1_b"}
EitfSegments  == {"eitf_a", "eitf_b"}
Segments      == {"code", "mz6"} \cup Mw1Segments \cup EitfSegments

\* All sequences over S of length at most n
SeqsUpTo(S, n) == UNION {[1..k -> S] : k \in 0..n}

\* find_mw1_match: the first match of MW1_PATTERN whose prompt function holds
\* the marker; 0 for None
find_mw1_match(content) ==
    IF \E i \in DOMAIN content : content[i] \in Mw1Segments
      THEN CHOOSE i \in DOMAIN content :
               /\ content[i] \in Mw1Segments
               /\ \A j \in 1..(i - 1) : content[j] \notin Mw1Segments
    ELSE 0

\* build_replacement: the IIFE for the matched call, with its names
build_replacement(old) == IF old = "mw1_a" THEN "eitf_a" ELSE "eitf_b"

\* "SUPERCOMPACT_EITF" in content
HasMarker(content) == \E i \in DOMAIN content : content[i] \in EitfSegments

\* old in content
HasText(content, old) == \E i \in DOMAIN content : content[i] = old

\* MUTANT: every occurrence of the matched text is replaced.
ReplaceAll(content, m) ==
    [i \in DOMAIN content |->
        IF content[i] = content[m] THEN build_replacement(content[m]) ELSE content[i]]

\* content[:m.start()] + new + content[m.end():]
Replace(content, m) ==
    [i \in DOMAIN content |-> IF i = m THEN build_replacement(content[m]) ELSE content[i]]

\* The patched content passes the verification of main.
Verified(new_content, old) == HasMarker(new_content) /\ ~HasText(new_content, old)

InitPatch ==
    /\ cli_js \in {[exists |-> FALSE, content |-> <<>>]}
                     \cup {[exists |-> TRUE, content |-> c] : c \in SeqsUpTo(Segments, MaxSegments)}
    /\ p_args = [enough |-> FALSE, dry_run |-> FALSE]
    /\ p_out = ""
    /\ p_exit = 0
    /\ p_runs = 0
    /\ SelIdle
    /\ CovIdle
    /\ ParseIdle
    /\ EvalIdle
    /\ BatchIdle
    /\ RemoteIdle
    /\ DedupIdle
    /\ CompactIdle
    /\ RankIdle
    /\ GreedyIdle
    /\ JudgeIdle
    /\ pc = "patcher"

PatchFrame ==
    UNCHANGED <<selVars, covVars, parseVars, evalVars, batchVars, remoteVars, dedupVars,
                compactVars, rankVars, greedyVars, judgeVars, pc>>

\* A run of main with arguments args that ends with message out and exit
\* status code, leaving the file as file.
PatcherEnds(args, out, code, file) ==
    /\ pc = "patcher"
    /\ p_runs < MaxRuns
    /\ p_runs' = p_runs + 1
    /\ p_args' = args
    /\ p_out' = out
    /\ p_exit' = code
    /\ cli_js' = file
    /\ PatchFrame

\* len(sys.argv) < 3
PatcherUsage ==
    \E d \in BOOLEAN :
        PatcherEnds([enough |-> FALSE, dry_run |-> d], "Usage", 1, cli_js)

\* not cli_path.exists()
PatcherNoFile ==
    \E d \in BOOLEAN :
        /\ ~cli_js.exists
        /\ PatcherEnds([enough |-> TRUE, dry_run |-> d], "Error: not found", 1, cli_js)

\* "SUPERCOMPACT_EITF" in content
PatcherAlreadyPatched ==
    \E d \in BOOLEAN :
        /\ cli_js.exists
        /\ HasMarker(cli_js.content)
        /\ PatcherEnds([enough |-> TRUE, dry_run |-> d], "Already patched", 0, cli_js)

\* m is None
PatcherNoPattern ==
    \E d \in BOOLEAN :
        /\ cli_js.exists
        /\ ~HasMarker(cli_js.content)
        /\ find_mw1_match(cli_js.content) = 0
        /\ PatcherEnds([enough |-> TRUE, dry_run |-> d],
                       "Error: MW1 compaction pattern not found", 1, cli_js)

\* The marker is not in the new content, or the old text still is.
PatcherVerificationFailed ==
    \E d \in BOOLEAN :
        /\ cli_js.exists
        /\ ~HasMarker(cli_js.content)
        /\ find_mw1_match(cli_js.content) # 0
        /\ LET m == find_mw1_match(cli_js.content)
               content == Replace(cli_js.content, m)
           IN  /\ ~Verified(content, cli_js.content[m])
               /\ PatcherEnds([enough |-> TRUE, dry_run |-> d],
                              IF ~HasMarker(content)
                                THEN "Error: verification failed - EITF marker not in output"
                                ELSE "Error: verification failed - original pattern still present",
                              1, cli_js)

\* dry_run: the patch is verified and not written.
PatcherDryRun ==
    /\ cli_js.exists
    /\ ~HasMarker(cli_js.content)
    /\ find_mw1_match(cli_js.content) # 0
    /\ LET m == find_mw1_match(cli_js.content)
           content == Replace(cli_js.content, m)
       IN  /\ Verified(content, cli_js.content[m])
           /\ PatcherEnds([enough |-> TRUE, dry_run |-> TRUE],
                          "Dry run - patch verified OK, not writing", 0, cli_js)

\* cli_path.write_text(content)
PatcherWrite ==
    /\ cli_js.exists
    /\ ~HasMarker(cli_js.content)
    /\ find_mw1_match(cli_js.content) # 0
    /\ LET m == find_mw1_match(cli_js.content)
           content == Replace(cli_js.content, m)
       IN  /\ Verified(content, cli_js.content[m])
           /\ PatcherEnds([enough |-> TRUE, dry_run |-> FALSE],
                          "Patch applied successfully", 0,
                          [exists |-> TRUE, content |-> content])

NextPatch ==
    \/ PatcherUsage
    \/ PatcherNoFile
    \/ PatcherAlreadyPatched
    \/ PatcherNoPattern
    \/ PatcherVerificationFailed
    \/ PatcherDryRun
    \/ PatcherWrite

SpecPatch == InitPatch /\ [][NextPatch]_vars

\* The file holds a compaction call of MW1.
PatternFound == \E i \in DOMAIN cli_js.content : cli_js.content[i] \in Mw1Segments

\* The file holds the marker of the patch.
IsPatched == \E i \in DOMAIN cli_js.content : cli_js.content[i] \in EitfSegments

\* The first compaction call of MW1 in the file is the only segment with its
\* text, so that no copy of it is left once it is replaced.
VerificationPasses ==
    LET first == find_mw1_match(cli_js.content)
    IN  \A i \in DOMAIN cli_js.content :
            cli_js.content[i] = cli_js.content[first] => i = first

\* This step is a run of the patcher.
PatcherRan == p_runs' = p_runs + 1

\* This run may write: the file exists and is not patched, the pattern is
\* found, the verification passes and --dry-run is absent from enough arguments.
MayWrite ==
    /\ cli_js.exists
    /\ ~IsPatched
    /\ PatternFound
    /\ VerificationPasses
    /\ p_args'.enough
    /\ ~p_args'.dry_run

\* C27: a run writes cli.js exactly when the file is not already patched, the
\* pattern is found, the verification passes and --dry-run is absent; in every
\* other outcome the file is unchanged; a run on a file the patcher has
\* written reports "Already patched" and changes nothing.
C27_PatcherFrame ==
    [][PatcherRan =>
          /\ cli_js' # cli_js => MayWrite
          /\ MayWrite =>
                 /\ p_out' = "Patch applied successfully"
                 /\ cli_js'.exists
                 /\ Len(cli_js'.content) = Len(cli_js.content)
                 /\ \A i \in DOMAIN cli_js.content :
                        cli_js'.content[i] =
                            IF i = find_mw1_match(cli_js.content)
                              THEN build_replacement(cli_js.content[i])
                              ELSE cli_js.content[i]
          /\ ~MayWrite => cli_js' = cli_js /\ p_out' # "Patch applied successfully"
          /\ (p_out = "Patch applied successfully" /\ p_args'.enough) =>
                 /\ p_out' = "Already patched"
                 /\ p_exit' = 0
                 /\ cli_js' = cli_js]_vars

\* C27 witness: the second run, on the file the first run wrote, reported
\* "Already patched".
C27_Witness ==
    /\ p_runs = 2
    /\ p_out = "Already patched"
    /\ p_exit = 0
    /\ \E i \in DOMAIN cli_js.content : cli_js.content[i] = "eitf_a"
    /\ \E i \in DOMAIN cli_js.content : cli_js.content[i] = "mz6"
    /\ ~\E i \in DOMAIN cli_js.content : cli_js.content[i] \in Mw1Segments

\* A run failed the verification: the matched call occurs twice in the file.
C27_WitnessVerificationFailed ==
    /\ p_out = "Error: verification failed - original pattern still present"
    /\ p_exit = 1
    /\ cli_js.content = <<"mw1_b", "code", "mw1_b">>

\* A dry run left a patchable file as it was.
C27_WitnessDryRun ==
    /\ p_out = "Dry run - patch verified OK, not writing"
    /\ cli_js.content = <<"code", "mw1_a", "mw1_b">>

====
